---- MODULE Spec2Model ----
(***************************************************************************)
(* Model of the cove room server (cove-server/src/main.rs).                *)
(*                                                                         *)
(* Every accepted connection runs one task (Server::greet_and_run) joined  *)
(* with its maintenance task (Server::handle_conn).  The task suspends at  *)
(* every rx.recv().await and at every Mutex::lock().await; the code run    *)
(* while a mutex is held contains no await, so one critical section is one *)
(* action.  The runtime is multi-threaded (#[tokio::main]), so the code a  *)
(* task runs after it released a mutex is a step of its own.               *)
(*                                                                         *)
(* sink[c] is the sequence of packets handed to ConnTx::send of connection *)
(* c, each tagged with the connection whose task made the call.            *)
(***************************************************************************)
EXTENDS Integers, Sequences, FiniteSets, TLC

\* ------------------------------------------------------------------ bounds
NConn == 3          \* connections the listener accepts
NRooms == 2         \* room names the clients ask for
MaxCmds == 2        \* valid Nick, Send and Who commands, all connections together
MaxInvalid == 1     \* commands a validation rule rejects, all connections together
MaxClock == 2       \* the wall clock reads 0 or MaxClock, in any order
NSeeds == 2         \* values the random generator yields in Room::new

Conns == 1 .. NConn
Clock == {0, MaxClock}

\* A run is bounded by one of these budgets: many commands on few
\* connections, or few commands on many connections or rooms.
Budgets ==
    {[conns |-> NConn - 1, rooms |-> NRooms - 1, seeds |-> NSeeds - 1,
      cmds |-> MaxCmds, invalid |-> 0],
     [conns |-> NConn - 1, rooms |-> NRooms - 1, seeds |-> NSeeds - 1,
      cmds |-> MaxCmds - 1, invalid |-> MaxInvalid],
     [conns |-> NConn - 1, rooms |-> NRooms, seeds |-> NSeeds,
      cmds |-> MaxCmds - 1, invalid |-> 0],
     [conns |-> NConn, rooms |-> NRooms - 1, seeds |-> NSeeds - 1,
      cmds |-> MaxCmds - 1, invalid |-> 0],
     [conns |-> NConn - 2, rooms |-> NRooms - 1, seeds |-> NSeeds - 1,
      cmds |-> MaxCmds - 1, invalid |-> MaxInvalid + 1]}

\* What a client may put into its commands.  "" is the value the validation
\* rules reject as empty after trimming, ControlNick one they reject for a
\* control character.
ControlNick == "a\nb"
RoomNames == <<"r", "s", "t", "u">>
RoomName(k) == IF k = 0 THEN "" ELSE RoomNames[k]
RoomInputs == {RoomName(k) : k \in 0 .. NRooms}
IdentifyNickInputs == {"a", "", ControlNick}
NickInputs == {"a", "b", ""}
IdentityInputs == {"i", ""}
ContentInputs == {"x", ""}
ParentInputs == {"None"}

None == "None"
NoSession == "NoSession"
NoCmd == [op |-> "none"]

\* rand::thread_rng().gen::<u64>() in negotiate_identity: only equality of
\* two draws is observable, so connection c draws from 1..c, which still
\* produces every pattern of equal and distinct session ids.
SessionRand(c) == 1 .. c

VARIABLES
    rooms,      \* Server.rooms: room name -> Room, a function on the names created
    pc,         \* position of each connection task
    roomName,   \* the name negotiate_room returned to greet
    session,    \* ServerSession.session, the task's own copy of its Session
    pend,       \* command being handled / value computed under the lock
    sink,       \* packets handed to each connection's ConnTx
    nrecv,      \* packets read from each connection (the client numbers its commands)
    result,     \* greet_and_run's `result`: what ServerSession::run returned
    left,       \* what is left of the run's budget
    hist,       \* per room name: the operations run on the room, in lock order
    mutex,      \* the task holding each tokio Mutex (0: free), where acquiring is a step
    view,       \* the client's InnerTreeViewState and the blocks of its last relayout
    runs,       \* two runs of the server, each up to its first IdentifyRpl::Success
    vault       \* the client's vault: the database file and the call of migrate on it

vars == <<rooms, pc, roomName, session, pend, sink, nrecv, result, left, hist, mutex, view,
         runs, vault>>

\* the mutex of Server.rooms and, by room name, the mutex of each Room
MapMutex == "Server.rooms"
Mutexes == {MapMutex} \cup {RoomName(k) : k \in 1 .. NRooms}

\* no layout pass has been made
NoView == [pass |-> "none"]

\* ------------------------------------------------------------- value types
\* SessionId::of, Identity::of, MessageId::of: content-addressed tokens.
SessionIdOf(x) == <<"SessionId", x>>
IdentityOf(x) == <<"Identity", x>>
MessageIdOf(x) == <<"MessageId", x>>

\* Message::id(): derived from all the other fields of the message.
MessageId(message) == MessageIdOf(message)

\* ---------------------------------------------------------------- util.rs
check_room(name) == IF name = "" THEN "empty" ELSE None
check_nick(nick) ==
    IF nick = "" THEN "empty" ELSE IF nick = ControlNick THEN "control character" ELSE None
check_identity(identity) == IF identity = "" THEN "empty" ELSE None
check_content(content) == IF content = "" THEN "empty" ELSE None

ValidRooms == {n \in RoomInputs : check_room(n) = None}

Max(a, b) == IF a >= b THEN a ELSE b
timestamp_after(previous, now) == Max(previous + 1, now)

\* ---------------------------------------------------------------- packets
Rpl(id, kind, fields) == [kind |-> kind, id |-> id] @@ fields
Ntf(kind, who) == [kind |-> kind, who |-> who]
SendNtfPacket(message) == [kind |-> "SendNtf", message |-> message]

\* ConnTx::send called by the task of connection `by` on the sink of `c`.
TxSend(s, c, packet, by) == [s EXCEPT ![c] = Append(@, [packet |-> packet, by |-> by])]

\* -------------------------------------------------------------------- Room
\* Room::new that seeds last_message from the name of the room
RoomNewNamed(name, rnd, now) ==
    [name |-> name,
     clients |-> << >>,
     last_message |-> MessageIdOf([text |-> name]),
     last_timestamp |-> now]

RoomNew(name, rnd, now) ==
    [name |-> name,
     clients |-> << >>,
     last_message |-> MessageIdOf([text |-> rnd]),
     last_timestamp |-> now]

Members(room) == {room.clients[id].send : id \in DOMAIN room.clients}
Sessions(room) == {room.clients[id].session : id \in DOMAIN room.clients}

\* Room::notify_all that hands the packet to the first connection's sink ahead
\* of what is already queued there
notify_allJumpQueue(room, s, packet, by) ==
    [c \in Conns |->
        IF \E id \in DOMAIN room.clients : room.clients[id].send = c
        THEN IF c = 1 THEN <<[packet |-> packet, by |-> by]>> \o s[c]
             ELSE Append(s[c], [packet |-> packet, by |-> by])
        ELSE s[c]]

notify_all(room, s, packet, by) ==
    [c \in Conns |->
        IF \E id \in DOMAIN room.clients : room.clients[id].send = c
        THEN Append(s[c], [packet |-> packet, by |-> by])
        ELSE s[c]]

\* Room::notify_except without the test on the session id
notify_exceptNobody(room, id, s, packet, by) ==
    [c \in Conns |->
        IF \E i \in DOMAIN room.clients : room.clients[i].send = c
        THEN Append(s[c], [packet |-> packet, by |-> by])
        ELSE s[c]]

notify_except(room, id, s, packet, by) ==
    [c \in Conns |->
        IF \E i \in DOMAIN room.clients :
               room.clients[i].send = c /\ room.clients[i].session.id # id
        THEN Append(s[c], [packet |-> packet, by |-> by])
        ELSE s[c]]

\* Room::join with the insert moved ahead of the broadcast
RoomJoinInsertFirst(room, client, s) ==
    LET joined == [room EXCEPT !.clients = client.session.id :> client @@ @]
    IN [room |-> joined,
        sink |-> notify_all(joined, s, Ntf("JoinNtf", client.session), client.send)]

\* Room::join past the duplicate check: [room, sink] after the call.
RoomJoin(room, client, s) ==
    [room |-> [room EXCEPT !.clients = client.session.id :> client @@ @],
     sink |-> notify_all(room, s, Ntf("JoinNtf", client.session), client.send)]

\* Room::part with the broadcast moved ahead of the removal
RoomPartNotifyFirst(room, id, s) ==
    LET client == room.clients[id]
        rest == [room EXCEPT !.clients =
                    [i \in DOMAIN room.clients \ {id} |-> room.clients[i]]]
    IN [room |-> rest,
        sink |-> notify_all(room, s, Ntf("PartNtf", client.session), client.send)]

\* Room::part
RoomPart(room, id, s) ==
    LET client == room.clients[id]
        rest == [room EXCEPT !.clients =
                    [i \in DOMAIN room.clients \ {id} |-> room.clients[i]]]
    IN [room |-> rest,
        sink |-> notify_all(rest, s, Ntf("PartNtf", client.session), client.send)]

\* Room::nick that announces the nick without storing it
RoomNickNoStore(room, id, nick, s) ==
    LET who == [room.clients[id].session EXCEPT !.nick = nick]
    IN [room |-> room,
        sink |-> notify_except(room, id, s, Ntf("NickNtf", who), room.clients[id].send)]

\* Room::nick
\* Room::nick that notifies with the session as it was before the change
RoomNickStale(room, id, nick, s) ==
    LET changed == [room EXCEPT !.clients[id].session.nick = nick]
        who == room.clients[id].session
    IN [room |-> changed,
        sink |-> notify_except(changed, id, s, Ntf("NickNtf", who), changed.clients[id].send)]

RoomNick(room, id, nick, s) ==
    LET changed == [room EXCEPT !.clients[id].session.nick = nick]
        who == changed.clients[id].session
    IN [room |-> changed,
        sink |-> notify_except(changed, id, s, Ntf("NickNtf", who), changed.clients[id].send)]

\* Room::send that stamps the message with the wall clock
RoomSendWallClock(room, id, parent, content, now, s) ==
    LET client == room.clients[id]
        message == [time |-> now,
                    pred |-> room.last_message,
                    parent |-> parent,
                    identity |-> client.session.identity,
                    nick |-> client.session.nick,
                    content |-> content]
        sent == [room EXCEPT !.last_timestamp = now, !.last_message = MessageId(message)]
    IN [room |-> sent,
        message |-> message,
        sink |-> notify_except(sent, id, s, SendNtfPacket(message), client.send)]

\* Room::send that leaves last_message as it was
RoomSendKeepLast(room, id, parent, content, now, s) ==
    LET client == room.clients[id]
        t == timestamp_after(room.last_timestamp, now)
        message == [time |-> t,
                    pred |-> room.last_message,
                    parent |-> parent,
                    identity |-> client.session.identity,
                    nick |-> client.session.nick,
                    content |-> content]
        sent == [room EXCEPT !.last_timestamp = t]
    IN [room |-> sent,
        message |-> message,
        sink |-> notify_except(sent, id, s, SendNtfPacket(message), client.send)]

\* Room::send
RoomSend(room, id, parent, content, now, s) ==
    LET client == room.clients[id]
        t == timestamp_after(room.last_timestamp, now)
        message == [time |-> t,
                    pred |-> room.last_message,
                    parent |-> parent,
                    identity |-> client.session.identity,
                    nick |-> client.session.nick,
                    content |-> content]
        sent == [room EXCEPT !.last_timestamp = t, !.last_message = MessageId(message)]
    IN [room |-> sent,
        message |-> message,
        sink |-> notify_except(sent, id, s, SendNtfPacket(message), client.send)]

\* Room::who without the filter on the caller's id
RoomWhoAll(room, id) ==
    [you |-> room.clients[id].session,
     others |-> {room.clients[i].session : i \in DOMAIN room.clients}]

\* Room::who
RoomWho(room, id) ==
    [you |-> room.clients[id].session,
     others |-> {room.clients[i].session :
                    i \in {j \in DOMAIN room.clients : room.clients[j].session.id # id}}]

\* Server::welcome answering with the id of a message not yet created
welcomeStale(id, you, room, c, s) ==
    TxSend(s, c, Rpl(id, "IdentifyRpl::Success",
                     [you |-> you, others |-> Sessions(room),
                      last_message |-> MessageIdOf([text |-> 0])]), c)

\* Server::welcome
welcome(id, you, room, c, s) ==
    TxSend(s, c, Rpl(id, "IdentifyRpl::Success",
                     [you |-> you, others |-> Sessions(room),
                      last_message |-> room.last_message]), c)

\* ------------------------------------------------------------------- Init
Init ==
    /\ rooms = << >>
    /\ pc = [c \in Conns |-> "listen"]
    /\ roomName = [c \in Conns |-> None]
    /\ session = [c \in Conns |-> NoSession]
    /\ pend = [c \in Conns |-> NoCmd]
    /\ sink = [c \in Conns |-> << >>]
    /\ nrecv = [c \in Conns |-> 0]
    /\ result = [c \in Conns |-> None]
    /\ left \in Budgets
    /\ hist = [n \in ValidRooms |-> << >>]
    /\ mutex = [m \in Mutexes |-> 0]
    /\ view = NoView
    /\ runs = None
    /\ vault = None

\* rx.recv() yields a command that passes / fails validation
CanCmd == left.cmds > 0
CanInvalid == left.invalid > 0
UseCmd == left' = [left EXCEPT !.cmds = @ - 1]
UseInvalid == left' = [left EXCEPT !.invalid = @ - 1]

Log(r, e) == [hist EXCEPT ![r] = Append(@, e)]

\* handle_conn returns: the task's ServerSession, its negotiated values and
\* the connection's command counter are dropped with it.
Drop(c) ==
    /\ pc' = [pc EXCEPT ![c] = "terminated"]
    /\ roomName' = [roomName EXCEPT ![c] = None]
    /\ session' = [session EXCEPT ![c] = NoSession]
    /\ pend' = [pend EXCEPT ![c] = NoCmd]
    /\ result' = [result EXCEPT ![c] = None]
    /\ nrecv' = [nrecv EXCEPT ![c] = 0]

\* ------------------------------------------------------------------ main
\* listener.accept() and tokio::spawn(on_conn): connections are numbered in
\* the order in which they are accepted.
Accept(c) ==
    /\ pc[c] = "listen"
    /\ c <= left.conns
    /\ \A d \in Conns : d < c => pc[d] # "listen"
    /\ pc' = [pc EXCEPT ![c] = "negotiate_room"]
    /\ UNCHANGED <<rooms, roomName, session, pend, sink, nrecv, result, left, hist>>

\* ------------------------------------------------- Server::negotiate_room
\* negotiate_room that leaves its loop after answering InvalidRoom
NegotiateRoomNoLoop(c) ==
    /\ pc[c] = "negotiate_room"
    /\ \E name \in {RoomName(k) : k \in 0 .. left.rooms} :
          LET id == nrecv[c] + 1 IN
          /\ nrecv' = [nrecv EXCEPT ![c] = id]
          /\ IF check_room(name) # None
             THEN /\ CanInvalid /\ UseInvalid
                  /\ sink' = TxSend(sink, c, Rpl(id, "RoomRpl::InvalidRoom",
                                                 [reason |-> check_room(name)]), c)
                  /\ roomName' = [roomName EXCEPT ![c] = RoomName(1)]
                  /\ pc' = [pc EXCEPT ![c] = "negotiate_identity"]
             ELSE /\ UNCHANGED left
                  /\ sink' = TxSend(sink, c, Rpl(id, "RoomRpl::Success", << >>), c)
                  /\ roomName' = [roomName EXCEPT ![c] = name]
                  /\ pc' = [pc EXCEPT ![c] = "negotiate_identity"]
    /\ UNCHANGED <<rooms, session, pend, result, hist>>

\* negotiate_room that enters the room in Server.rooms as soon as its name is
\* accepted, before the identity is negotiated
NegotiateRoomCreates(c) ==
    /\ pc[c] = "negotiate_room"
    /\ \E name \in {RoomName(k) : k \in 0 .. left.rooms} :
          LET id == nrecv[c] + 1 IN
          /\ nrecv' = [nrecv EXCEPT ![c] = id]
          /\ IF check_room(name) # None
             THEN /\ CanInvalid /\ UseInvalid
                  /\ sink' = TxSend(sink, c, Rpl(id, "RoomRpl::InvalidRoom",
                                                 [reason |-> check_room(name)]), c)
                  /\ UNCHANGED <<pc, roomName, rooms>>
             ELSE /\ UNCHANGED left
                  /\ sink' = TxSend(sink, c, Rpl(id, "RoomRpl::Success", << >>), c)
                  /\ roomName' = [roomName EXCEPT ![c] = name]
                  /\ rooms' = IF name \in DOMAIN rooms THEN rooms
                              ELSE (name :> RoomNew(name, 1, 0)) @@ rooms
                  /\ pc' = [pc EXCEPT ![c] = "negotiate_identity"]
    /\ UNCHANGED <<session, pend, result, hist>>

NegotiateRoom(c) ==
    /\ pc[c] = "negotiate_room"
    /\ \E name \in {RoomName(k) : k \in 0 .. left.rooms} :
          LET id == nrecv[c] + 1 IN
          /\ nrecv' = [nrecv EXCEPT ![c] = id]
          /\ IF check_room(name) # None
             THEN /\ CanInvalid /\ UseInvalid
                  /\ sink' = TxSend(sink, c, Rpl(id, "RoomRpl::InvalidRoom",
                                                 [reason |-> check_room(name)]), c)
                  /\ UNCHANGED <<pc, roomName>>
             ELSE /\ UNCHANGED left
                  /\ sink' = TxSend(sink, c, Rpl(id, "RoomRpl::Success", << >>), c)
                  /\ roomName' = [roomName EXCEPT ![c] = name]
                  /\ pc' = [pc EXCEPT ![c] = "negotiate_identity"]
    /\ UNCHANGED <<rooms, session, pend, result, hist>>

\* any other packet, a closed connection or a receive error: greet returns Err
NegotiateRoomFail(c) ==
    /\ pc[c] = "negotiate_room"
    /\ Drop(c)
    /\ UNCHANGED <<rooms, sink, left, hist>>

\* --------------------------------------------- Server::negotiate_identity
\* negotiate_identity with the two checks in the other order
IdentifyReasonNickFirst(nick, identity) ==
    IF check_nick(nick) # None THEN check_nick(nick) ELSE check_identity(identity)

\* the two `if let Some(reason)` of negotiate_identity: the reason it answers
IdentifyReason(nick, identity) ==
    IF check_identity(identity) # None THEN check_identity(identity) ELSE check_nick(nick)

NegotiateIdentity(c) ==
    /\ pc[c] = "negotiate_identity"
    /\ \E nick \in IdentifyNickInputs, identity \in IdentityInputs, rnd \in SessionRand(c) :
          LET id == nrecv[c] + 1 IN
          /\ nrecv' = [nrecv EXCEPT ![c] = id]
          /\ IF IdentifyReason(nick, identity) # None
             THEN /\ CanInvalid /\ UseInvalid
                  /\ sink' = TxSend(sink, c, Rpl(id, "IdentifyRpl::InvalidNick",
                                                 [reason |-> IdentifyReason(nick, identity)]), c)
                  /\ UNCHANGED <<pc, session, pend>>
             ELSE /\ UNCHANGED left
                  /\ session' = [session EXCEPT ![c] =
                                    [id |-> SessionIdOf(rnd), nick |-> nick,
                                     identity |-> IdentityOf(identity)]]
                  /\ pend' = [pend EXCEPT ![c] = [op |-> "identify", id |-> id]]
                  /\ pc' = [pc EXCEPT ![c] = "rooms_lock"]
                  /\ UNCHANGED sink
    /\ UNCHANGED <<rooms, roomName, result, hist>>

NegotiateIdentityFail(c) ==
    /\ pc[c] = "negotiate_identity"
    /\ Drop(c)
    /\ UNCHANGED <<rooms, sink, left, hist>>

\* ----------------------------------------------------------- Server::room
\* rooms.lock().await.entry(name).or_insert_with(Room::new).clone()
ServerRoom(c) ==
    /\ pc[c] = "rooms_lock"
    /\ IF roomName[c] \in DOMAIN rooms
       THEN UNCHANGED <<rooms, hist>>
       ELSE \E rnd \in 1 .. left.seeds, now \in Clock :
               LET room == RoomNew(roomName[c], rnd, now) IN
               /\ rooms' = (roomName[c] :> room) @@ rooms
               /\ hist' = Log(roomName[c], [op |-> "new",
                                            last_message |-> room.last_message,
                                            last_timestamp |-> room.last_timestamp])
    /\ pc' = [pc EXCEPT ![c] = "greet_lock"]
    /\ UNCHANGED <<roomName, session, pend, sink, nrecv, result, left>>

\* ---------------------------------------------------------- Server::greet
\* the block holding room.lock(): welcome, then Room::join
\* greet whose Room::join inserts the client without looking for its session
\* id among the keys of the map
GreetNoCheck(c) ==
    /\ pc[c] = "greet_lock"
    /\ LET r == roomName[c]
           room == rooms[r]
           client == [session |-> session[c], send |-> c]
           welcomed == welcome(pend[c].id, session[c], room, c, sink)
           joined == RoomJoin(room, client, welcomed)
       IN /\ sink' = joined.sink
          /\ rooms' = [rooms EXCEPT ![r] = joined.room]
          /\ pc' = [pc EXCEPT ![c] = "run"]
          /\ pend' = [pend EXCEPT ![c] = NoCmd]
          /\ hist' = Log(r, [op |-> "join", conn |-> c, who |-> session[c],
                             members |-> Members(room),
                             last_message |-> room.last_message])
          /\ UNCHANGED <<roomName, session, nrecv, result>>
    /\ UNCHANGED left

Greet(c) ==
    /\ pc[c] = "greet_lock"
    /\ LET r == roomName[c]
           room == rooms[r]
           client == [session |-> session[c], send |-> c]
           welcomed == welcome(pend[c].id, session[c], room, c, sink)
       IN IF client.session.id \in DOMAIN room.clients
          THEN \* panic!("duplicated session id"): the task unwinds, the guard is dropped
               /\ sink' = welcomed
               /\ Drop(c)
               /\ UNCHANGED <<rooms, hist>>
          ELSE LET joined == RoomJoin(room, client, welcomed) IN
               /\ sink' = joined.sink
               /\ rooms' = [rooms EXCEPT ![r] = joined.room]
               /\ pc' = [pc EXCEPT ![c] = "run"]
               /\ pend' = [pend EXCEPT ![c] = NoCmd]
               /\ hist' = Log(r, [op |-> "join", conn |-> c, who |-> session[c],
                                  members |-> Members(room),
                                  last_message |-> room.last_message])
               /\ UNCHANGED <<roomName, session, nrecv, result>>
    /\ UNCHANGED left

\* ------------------------------------------- ServerSession::handle_nick
HandleNick(c) ==
    /\ pc[c] = "run"
    /\ \E nick \in NickInputs :
          LET id == nrecv[c] + 1 IN
          /\ nrecv' = [nrecv EXCEPT ![c] = id]
          /\ IF check_nick(nick) # None
             THEN /\ CanInvalid /\ UseInvalid
                  /\ sink' = TxSend(sink, c, Rpl(id, "NickRpl::InvalidNick",
                                                 [reason |-> check_nick(nick)]), c)
                  /\ UNCHANGED <<pc, session, pend>>
             ELSE LET you == [session[c] EXCEPT !.nick = nick] IN
                  /\ CanCmd /\ UseCmd
                  /\ session' = [session EXCEPT ![c] = you]
                  /\ sink' = TxSend(sink, c, Rpl(id, "NickRpl::Success", [you |-> you]), c)
                  /\ pend' = [pend EXCEPT ![c] = [op |-> "nick", id |-> id, nick |-> nick]]
                  /\ pc' = [pc EXCEPT ![c] = "nick_lock"]
    /\ UNCHANGED <<rooms, roomName, result, hist>>

\* self.room.lock().await.nick(self.session.id, cmd.nick)
HandleNickLocked(c) ==
    /\ pc[c] = "nick_lock"
    /\ LET r == roomName[c]
           res == RoomNick(rooms[r], session[c].id, pend[c].nick, sink)
       IN /\ rooms' = [rooms EXCEPT ![r] = res.room]
          /\ sink' = res.sink
          /\ hist' = Log(r, [op |-> "nick", conn |-> c, id |-> pend[c].id,
                             nick |-> pend[c].nick])
    /\ pend' = [pend EXCEPT ![c] = NoCmd]
    /\ pc' = [pc EXCEPT ![c] = "run"]
    /\ UNCHANGED <<roomName, session, nrecv, result, left>>

\* ------------------------------------------- ServerSession::handle_send
\* handle_send that goes on to Room::send after answering InvalidContent
HandleSendNoReturn(c) ==
    /\ pc[c] = "run"
    /\ \E parent \in ParentInputs, content \in ContentInputs :
          LET id == nrecv[c] + 1 IN
          /\ nrecv' = [nrecv EXCEPT ![c] = id]
          /\ IF check_content(content) # None
             THEN /\ CanInvalid /\ UseInvalid
                  /\ sink' = TxSend(sink, c, Rpl(id, "SendRpl::InvalidContent",
                                                 [reason |-> check_content(content)]), c)
             ELSE /\ CanCmd /\ UseCmd
                  /\ UNCHANGED sink
          /\ pend' = [pend EXCEPT ![c] = [op |-> "send", id |-> id,
                                          parent |-> parent, content |-> content]]
          /\ pc' = [pc EXCEPT ![c] = "send_lock"]
    /\ UNCHANGED <<rooms, roomName, session, result, hist>>

HandleSend(c) ==
    /\ pc[c] = "run"
    /\ \E parent \in ParentInputs, content \in ContentInputs :
          LET id == nrecv[c] + 1 IN
          /\ nrecv' = [nrecv EXCEPT ![c] = id]
          /\ IF check_content(content) # None
             THEN /\ CanInvalid /\ UseInvalid
                  /\ sink' = TxSend(sink, c, Rpl(id, "SendRpl::InvalidContent",
                                                 [reason |-> check_content(content)]), c)
                  /\ UNCHANGED <<pc, pend>>
             ELSE /\ CanCmd /\ UseCmd
                  /\ pend' = [pend EXCEPT ![c] = [op |-> "send", id |-> id,
                                                   parent |-> parent, content |-> content]]
                  /\ pc' = [pc EXCEPT ![c] = "send_lock"]
                  /\ UNCHANGED sink
    /\ UNCHANGED <<rooms, roomName, session, result, hist>>

\* self.room.lock().await.send(self.session.id, cmd.parent, cmd.content)
HandleSendLocked(c) ==
    /\ pc[c] = "send_lock"
    /\ \E now \in Clock :
          LET r == roomName[c]
              res == RoomSend(rooms[r], session[c].id, pend[c].parent, pend[c].content,
                              now, sink)
          IN /\ rooms' = [rooms EXCEPT ![r] = res.room]
             /\ sink' = res.sink
             /\ pend' = [pend EXCEPT ![c] = [op |-> "send_rpl", id |-> pend[c].id,
                                              message |-> res.message]]
             /\ hist' = Log(r, [op |-> "send", conn |-> c, id |-> pend[c].id,
                                message |-> res.message, now |-> now,
                                before |-> rooms[r].last_timestamp])
    /\ pc' = [pc EXCEPT ![c] = "send_rpl"]
    /\ UNCHANGED <<roomName, session, nrecv, result, left>>

\* self.tx.send(SendRpl::Success { message }), after the guard was dropped
HandleSendReply(c) ==
    /\ pc[c] = "send_rpl"
    /\ sink' = TxSend(sink, c, Rpl(pend[c].id, "SendRpl::Success",
                                   [message |-> pend[c].message]), c)
    /\ pend' = [pend EXCEPT ![c] = NoCmd]
    /\ pc' = [pc EXCEPT ![c] = "run"]
    /\ UNCHANGED <<rooms, roomName, session, nrecv, result, left, hist>>

\* -------------------------------------------- ServerSession::handle_who
HandleWho(c) ==
    /\ pc[c] = "run"
    /\ CanCmd /\ UseCmd
    /\ nrecv' = [nrecv EXCEPT ![c] = @ + 1]
    /\ pend' = [pend EXCEPT ![c] = [op |-> "who", id |-> nrecv[c] + 1]]
    /\ pc' = [pc EXCEPT ![c] = "who_lock"]
    /\ UNCHANGED <<rooms, roomName, session, sink, result, hist>>

\* self.room.lock().await.who(self.session.id)
HandleWhoLocked(c) ==
    /\ pc[c] = "who_lock"
    /\ LET res == RoomWho(rooms[roomName[c]], session[c].id) IN
          /\ pend' = [pend EXCEPT ![c] = [op |-> "who_rpl", id |-> pend[c].id,
                                          you |-> res.you, others |-> res.others]]
          /\ hist' = Log(roomName[c], [op |-> "who", conn |-> c, id |-> pend[c].id,
                                       you |-> res.you, others |-> res.others])
    /\ pc' = [pc EXCEPT ![c] = "who_rpl"]
    /\ UNCHANGED <<rooms, roomName, session, sink, nrecv, result, left>>

HandleWhoReply(c) ==
    /\ pc[c] = "who_rpl"
    /\ sink' = TxSend(sink, c, Rpl(pend[c].id, "WhoRpl",
                                   [you |-> pend[c].you, others |-> pend[c].others]), c)
    /\ pend' = [pend EXCEPT ![c] = NoCmd]
    /\ pc' = [pc EXCEPT ![c] = "run"]
    /\ UNCHANGED <<rooms, roomName, session, nrecv, result, left, hist>>

\* ------------------------------- ServerSession::run / handle_packet ending
\* recv yields None (run returns Ok), or an error, or a packet that
\* handle_packet rejects (Room, Identify, any Rpl, any Ntf): run returns Err
RunResults == {"Ok", "Err(recv)", "Err(unexpected packet)"}

RunEnd(c) ==
    /\ pc[c] = "run"
    /\ \E res \in RunResults : result' = [result EXCEPT ![c] = res]
    /\ pc' = [pc EXCEPT ![c] = "part_lock"]
    /\ UNCHANGED <<rooms, roomName, session, pend, sink, nrecv, left, hist>>

\* ------------------------------------------------ Server::greet_and_run
\* session.room.lock().await.part(session.session.id)
Part(c) ==
    /\ pc[c] = "part_lock"
    /\ LET r == roomName[c]
           res == RoomPart(rooms[r], session[c].id, sink)
       IN /\ rooms' = [rooms EXCEPT ![r] = res.room]
          /\ sink' = res.sink
          /\ hist' = Log(r, [op |-> "part", conn |-> c, members |-> Members(res.room)])
    /\ Drop(c)
    /\ UNCHANGED left

\* -------------------------------------------------- Server::handle_conn
\* try_join!(greet_and_run, maintain): when maintain returns Err the macro
\* returns at once and drops greet_and_run at the await it is suspended in.
AwaitPoints == {"negotiate_room", "negotiate_identity", "rooms_lock", "greet_lock",
                "run", "nick_lock", "send_lock", "who_lock", "part_lock"}

MaintainFail(c) ==
    /\ pc[c] \in AwaitPoints
    /\ Drop(c)
    /\ UNCHANGED <<rooms, sink, left, hist>>

\* every critical section taken as one step: lock, body and release
Atomic(A) == A /\ UNCHANGED <<mutex, view, runs, vault>>

Next ==
    \E c \in Conns :
        \/ Atomic(Accept(c))
        \/ Atomic(NegotiateRoom(c))
        \/ Atomic(NegotiateRoomFail(c))
        \/ Atomic(NegotiateIdentity(c))
        \/ Atomic(NegotiateIdentityFail(c))
        \/ Atomic(ServerRoom(c))
        \/ Atomic(Greet(c))
        \/ Atomic(HandleNick(c))
        \/ Atomic(HandleNickLocked(c))
        \/ Atomic(HandleSend(c))
        \/ Atomic(HandleSendLocked(c))
        \/ Atomic(HandleSendReply(c))
        \/ Atomic(HandleWho(c))
        \/ Atomic(HandleWhoLocked(c))
        \/ Atomic(HandleWhoReply(c))
        \/ Atomic(RunEnd(c))
        \/ Atomic(Part(c))
        \/ Atomic(MaintainFail(c))

Spec == Init /\ [][Next]_vars

\* ---------------------------------------------------- the mutexes, explicit
\* The same tasks with Mutex::lock().await as a step of its own: a task waits
\* at the lock, is granted it, runs the code under the guard and drops the
\* guard where its scope ends in the source.
LockBudgets ==
    {[conns |-> NConn - 1, rooms |-> NRooms, seeds |-> NSeeds - 1,
      cmds |-> MaxCmds - 1, invalid |-> 0]}

LockInit ==
    /\ rooms = << >>
    /\ pc = [c \in Conns |-> "listen"]
    /\ roomName = [c \in Conns |-> None]
    /\ session = [c \in Conns |-> NoSession]
    /\ pend = [c \in Conns |-> NoCmd]
    /\ sink = [c \in Conns |-> << >>]
    /\ nrecv = [c \in Conns |-> 0]
    /\ result = [c \in Conns |-> None]
    /\ left \in LockBudgets
    /\ hist = [n \in ValidRooms |-> << >>]
    /\ mutex = [m \in Mutexes |-> 0]
    /\ view = NoView
    /\ runs = None
    /\ vault = None

\* the positions at which a task is in `.lock().await` or under its guard
LockPoints == {"rooms_lock", "greet_lock", "nick_lock", "send_lock", "who_lock", "part_lock"}

\* the mutex the task of c locks at its position: self.rooms in Server::room,
\* the Room handle everywhere else
Requested(c) == IF pc[c] = "rooms_lock" THEN MapMutex ELSE roomName[c]

Held(c) == {m \in Mutexes : mutex[m] = c}
Waiting(c) == pc[c] \in LockPoints /\ mutex[Requested(c)] # c

\* the future of lock() resolves: the mutex is free and the task takes it
LockAcquire(c) ==
    /\ Waiting(c)
    /\ mutex[Requested(c)] = 0
    /\ mutex' = [mutex EXCEPT ![Requested(c)] = c]
    /\ UNCHANGED <<rooms, pc, roomName, session, pend, sink, nrecv, result, left, hist, view, runs, vault>>

\* a guard that outlives its statement: the mutex stays locked
UnlockLeaked(m) == mutex

\* the MutexGuard is dropped: at the end of the statement (a temporary) or of
\* the block in greet
Unlock(m) == [mutex EXCEPT ![m] = 0]

\* the code no mutex guards
Unlocked(A) == A /\ UNCHANGED <<mutex, view, runs, vault>>

\* the code run under the guard of the mutex requested, up to its drop
Critical(c, A) ==
    /\ pc[c] \in LockPoints
    /\ mutex[Requested(c)] = c
    /\ A
    /\ mutex' = Unlock(Requested(c))
    /\ UNCHANGED <<view, runs, vault>>

\* try_join! drops the task at an await: it holds no guard there
LockMaintainFail(c) ==
    /\ Held(c) = {}
    /\ MaintainFail(c)
    /\ UNCHANGED <<mutex, view, runs, vault>>

LockNext ==
    \E c \in Conns :
        \/ LockAcquire(c)
        \/ Unlocked(Accept(c))
        \/ Unlocked(NegotiateRoom(c))
        \/ Unlocked(NegotiateRoomFail(c))
        \/ Unlocked(NegotiateIdentity(c))
        \/ Unlocked(NegotiateIdentityFail(c))
        \/ Critical(c, ServerRoom(c))
        \/ Critical(c, Greet(c))
        \/ Unlocked(HandleNick(c))
        \/ Critical(c, HandleNickLocked(c))
        \/ Unlocked(HandleSend(c))
        \/ Critical(c, HandleSendLocked(c))
        \/ Unlocked(HandleSendReply(c))
        \/ Unlocked(HandleWho(c))
        \/ Critical(c, HandleWhoLocked(c))
        \/ Unlocked(HandleWhoReply(c))
        \/ Unlocked(RunEnd(c))
        \/ Critical(c, Part(c))
        \/ LockMaintainFail(c)

\* a running task advances; tokio's Mutex is fair (first come, first served),
\* so a waiting task is not passed over for ever
LockFairness ==
    \A c \in Conns :
        /\ SF_vars(LockAcquire(c))
        /\ WF_vars(Critical(c, ServerRoom(c)) \/ Critical(c, Greet(c))
                   \/ Critical(c, HandleNickLocked(c)) \/ Critical(c, HandleSendLocked(c))
                   \/ Critical(c, HandleWhoLocked(c)) \/ Critical(c, Part(c)))

LockSpec == LockInit /\ [][LockNext]_vars /\ LockFairness

\* ================================================================ claims
\* positions in sink[c] of the packets of `kind` sent by the task of `by`
Idx(c, kind, by) ==
    {k \in 1 .. Len(sink[c]) : sink[c][k].packet.kind = kind /\ sink[c][k].by = by}

\* positions in hist[r] of the operations `op`
Ops(r, op) == {i \in 1 .. Len(hist[r]) : hist[r][i].op = op}
OpsBy(r, op, c) == {i \in Ops(r, op) : hist[r][i].conn = c}

\* the connections in the room just before operation i of hist[r]
MembersAt(r, i) ==
    {c \in Conns : /\ \E j \in OpsBy(r, "join", c) : j < i
                   /\ ~ \E j \in OpsBy(r, "part", c) : j < i}

\* the Session of member c just before operation i of hist[r]: as it joined,
\* with the nick of its last nick operation
SessionAt(r, i, c) ==
    LET j == CHOOSE k \in OpsBy(r, "join", c) : TRUE
        nicks == {k \in OpsBy(r, "nick", c) : k < i}
    IN IF nicks = {} THEN hist[r][j].who
       ELSE [hist[r][j].who EXCEPT
                !.nick = hist[r][CHOOSE k \in nicks : \A l \in nicks : l <= k].nick]

Concerning == {"SendNtf", "NickNtf", "PartNtf"}

\* C1: when a connection is inserted into a room, every member of the room at
\* that instant is sent exactly one JoinNtf{who} for the new session, placed on
\* its sink before every SendNtf, NickNtf or PartNtf the new session causes;
\* the new session is not sent its own JoinNtf.
C1_JoinNtfOnceAndFirst ==
    \A r \in ValidRooms : \A i \in Ops(r, "join") :
        LET e == hist[r][i] IN
        /\ \A m \in e.members :
              /\ Cardinality(Idx(m, "JoinNtf", e.conn)) = 1
              /\ \A k \in Idx(m, "JoinNtf", e.conn) :
                    /\ sink[m][k].packet = Ntf("JoinNtf", e.who)
                    /\ \A l \in 1 .. Len(sink[m]) :
                          (sink[m][l].by = e.conn /\ sink[m][l].packet.kind \in Concerning)
                              => k < l
        /\ Idx(e.conn, "JoinNtf", e.conn) = {}

\* a member saw the JoinNtf of a later session and then a packet that session caused
C1_Witness ==
    \E r \in ValidRooms : \E i \in Ops(r, "join") : \E m \in hist[r][i].members :
        \E l \in 1 .. Len(sink[m]) :
            /\ sink[m][l].by = hist[r][i].conn
            /\ sink[m][l].packet.kind \in Concerning

\* C2: a departure (Room::part) happens at most once per session and only
\* after its join; its PartNtf{who} is sent exactly once to every remaining
\* member, never twice to anyone, never ahead of the session's JoinNtf, never
\* to the departing session; afterwards the session is not in the client map.
C2_PartNtfOncePerDeparture ==
    \A r \in ValidRooms : \A i \in Ops(r, "part") :
        LET e == hist[r][i]
            j == CHOOSE k \in OpsBy(r, "join", e.conn) : TRUE
        IN
        /\ \A q \in ValidRooms : OpsBy(q, "part", e.conn) = IF q = r THEN {i} ELSE {}
        /\ \E k \in OpsBy(r, "join", e.conn) : k < i
        /\ \A m \in e.members :
              /\ Cardinality(Idx(m, "PartNtf", e.conn)) = 1
              /\ \A k \in Idx(m, "PartNtf", e.conn) :
                    sink[m][k].packet = Ntf("PartNtf", SessionAt(r, i, e.conn))
        /\ \A m \in Conns :
              /\ Cardinality(Idx(m, "PartNtf", e.conn)) <= 1
              /\ \A k \in Idx(m, "PartNtf", e.conn), l \in Idx(m, "JoinNtf", e.conn) : l < k
        /\ Idx(e.conn, "PartNtf", e.conn) = {}
        /\ e.conn \notin Members(rooms[r])

\* a session left a room in which another member remained
C2_Witness ==
    \E r \in ValidRooms : \E i \in Ops(r, "part") :
        /\ hist[r][i].members # {}
        /\ \E m \in hist[r][i].members : Idx(m, "JoinNtf", hist[r][i].conn) # {}

\* the room and the position of the join of connection c, if it joined
Joined(c) == \E r \in ValidRooms : OpsBy(r, "join", c) # {}
JoinRoom(c) == CHOOSE r \in ValidRooms : OpsBy(r, "join", c) # {}
JoinAt(c) == CHOOSE i \in OpsBy(JoinRoom(c), "join", c) : TRUE

\* C3: a session that joined a room is removed from the room's client map
\* once its connection has terminated, whatever ended it; stated on the final
\* state: a terminated connection is a member of no room.
C3_TerminatedIsParted ==
    \A c \in Conns :
        pc[c] = "terminated" => \A r \in DOMAIN rooms : c \notin Members(rooms[r])

\* the messages created in room r, in order
SendOps(r) == Ops(r, "send")
PrevSend(r, i) == {k \in SendOps(r) : k < i}
LastOf(S) == CHOOSE k \in S : \A l \in S : l <= k

\* C4: in every room the pred of each message is the id of the message
\* created just before it in that room (the room's initial last_message for
\* the first), and the room's last_message is the id of the newest message.
C4_HashChain ==
    \A r \in DOMAIN rooms :
        LET new == hist[r][CHOOSE i \in Ops(r, "new") : TRUE] IN
        /\ \A i \in SendOps(r) :
              hist[r][i].message.pred =
                  IF PrevSend(r, i) = {} THEN new.last_message
                  ELSE MessageId(hist[r][LastOf(PrevSend(r, i))].message)
        /\ rooms[r].last_message =
              IF SendOps(r) = {} THEN new.last_message
              ELSE MessageId(hist[r][LastOf(SendOps(r))].message)

\* two members of one room each sent a message
C4_Witness ==
    \E r \in DOMAIN rooms : \E i, j \in SendOps(r) :
        i < j /\ hist[r][i].conn # hist[r][j].conn

\* C5: the last_message of IdentifyRpl::Success is the room's last_message at
\* the instant the client is inserted; every SendNtf the client is sent comes
\* after that reply and has as pred that id or the id of a message created
\* after the join, and the first one has that id as pred unless the client
\* itself has sent a message.
C5_AtomicWelcomeJoin ==
    \A c \in Conns : Joined(c) =>
        LET r == JoinRoom(c)
            i == JoinAt(c)
            k == CHOOSE x \in Idx(c, "IdentifyRpl::Success", c) : TRUE
            at == sink[c][k].packet.last_message
            ntfs == {l \in 1 .. Len(sink[c]) : sink[c][l].packet.kind = "SendNtf"}
        IN
        /\ Cardinality(Idx(c, "IdentifyRpl::Success", c)) = 1
        /\ at = hist[r][i].last_message
        /\ at = IF PrevSend(r, i) = {} THEN hist[r][CHOOSE n \in Ops(r, "new") : TRUE].last_message
                ELSE MessageId(hist[r][LastOf(PrevSend(r, i))].message)
        /\ \A l \in ntfs :
              /\ k < l
              /\ \/ sink[c][l].packet.message.pred = at
                 \/ \E j \in SendOps(r) :
                       i < j /\ sink[c][l].packet.message.pred = MessageId(hist[r][j].message)
        /\ ntfs # {} =>
              \/ sink[c][CHOOSE l \in ntfs : \A l2 \in ntfs : l <= l2].packet.message.pred = at
              \/ OpsBy(r, "send", c) # {}

\* a client joined a room that already had a message and was then sent a SendNtf
C5_Witness ==
    \E c \in Conns :
        /\ Joined(c)
        /\ PrevSend(JoinRoom(c), JoinAt(c)) # {}
        /\ \E l \in 1 .. Len(sink[c]) : sink[c][l].packet.kind = "SendNtf"

\* positions in sink[c] of the replies to command `id` of connection c
RepliesTo(c, id) ==
    {k \in 1 .. Len(sink[c]) :
        /\ "id" \in DOMAIN sink[c][k].packet
        /\ sink[c][k].packet.id = id}

\* the reply to command `id` is still to be sent by the task of c
ReplyPending(c, id) == pc[c] \in {"send_rpl", "who_rpl"} /\ pend[c].id = id

\* C6: no client is sent a SendNtf or NickNtf for its own command.  A valid
\* SendCmd is answered by exactly one packet, the correlated
\* SendRpl::Success{message}, and that message is the one every other member
\* is sent in a SendNtf; a valid NickCmd is answered by NickRpl::Success only.
C6_NoOwnNtf ==
    /\ \A c \in Conns : Idx(c, "SendNtf", c) = {} /\ Idx(c, "NickNtf", c) = {}
    /\ \A r \in ValidRooms :
          /\ \A i \in SendOps(r) :
                LET e == hist[r][i] IN
                /\ IF ReplyPending(e.conn, e.id) THEN RepliesTo(e.conn, e.id) = {}
                   ELSE /\ Cardinality(RepliesTo(e.conn, e.id)) = 1
                        /\ \A k \in RepliesTo(e.conn, e.id) :
                              sink[e.conn][k] =
                                  [packet |-> Rpl(e.id, "SendRpl::Success",
                                                  [message |-> e.message]),
                                   by |-> e.conn]
                /\ \A m \in MembersAt(r, i) \ {e.conn} :
                      Cardinality({k \in Idx(m, "SendNtf", e.conn) :
                                      sink[m][k].packet = SendNtfPacket(e.message)}) = 1
          /\ \A i \in Ops(r, "nick") :
                LET e == hist[r][i] IN
                /\ Cardinality(RepliesTo(e.conn, e.id)) = 1
                /\ \A k \in RepliesTo(e.conn, e.id) :
                      /\ sink[e.conn][k].packet.kind = "NickRpl::Success"
                      /\ sink[e.conn][k].by = e.conn

\* a member got the reply to its send and another member to its nick change
C6_Witness ==
    \E r \in ValidRooms :
        /\ \E i \in SendOps(r) :
              /\ MembersAt(r, i) \ {hist[r][i].conn} # {}
              /\ RepliesTo(hist[r][i].conn, hist[r][i].id) # {}
        /\ \E i \in Ops(r, "nick") : MembersAt(r, i) \ {hist[r][i].conn} # {}

\* C7: in every room last_timestamp changes only in send, which sets it to
\* max(last_timestamp + 1, now): the times of the room's messages strictly
\* increase, each is at least the clock reading of its send, and the room's
\* last_timestamp is the time of its newest message.
C7_TimestampMonotonic ==
    \A r \in DOMAIN rooms :
        LET new == hist[r][CHOOSE i \in Ops(r, "new") : TRUE] IN
        /\ \A i \in SendOps(r) :
              LET e == hist[r][i] IN
              /\ e.before = IF PrevSend(r, i) = {} THEN new.last_timestamp
                            ELSE hist[r][LastOf(PrevSend(r, i))].message.time
              /\ e.message.time = Max(e.before + 1, e.now)
              /\ e.message.time > e.before
              /\ e.message.time >= e.now
        /\ \A i, j \in SendOps(r) : i < j => hist[r][i].message.time < hist[r][j].message.time
        /\ rooms[r].last_timestamp =
              IF SendOps(r) = {} THEN new.last_timestamp
              ELSE hist[r][LastOf(SendOps(r))].message.time

\* two sends of a room with another operation between them, the clock of the
\* second reading less than the time of the first message
C7_Witness ==
    \E r \in DOMAIN rooms : \E i, j \in SendOps(r) :
        /\ i + 1 < j
        /\ hist[r][j].now < hist[r][i].message.time
        /\ hist[r][i].now > hist[r][i].before + 1

\* C8: the others of IdentifyRpl::Success are exactly the sessions in the
\* client map when the new client is inserted, the new session not among
\* them, and you is the new session; the others of WhoRpl are exactly the
\* members at the who call without the caller, each with its nick of then.
C8_MembershipSnapshots ==
    /\ \A r \in DOMAIN rooms :
          LET end == Len(hist[r]) + 1 IN
          /\ Members(rooms[r]) = MembersAt(r, end)
          /\ Sessions(rooms[r]) = {SessionAt(r, end, m) : m \in MembersAt(r, end)}
    /\ \A c \in Conns : Joined(c) =>
          LET r == JoinRoom(c)
              i == JoinAt(c)
              rpl == sink[c][CHOOSE x \in Idx(c, "IdentifyRpl::Success", c) : TRUE].packet
          IN
          /\ rpl.you = hist[r][i].who
          /\ rpl.others = {SessionAt(r, i, m) : m \in MembersAt(r, i)}
          /\ \A o \in rpl.others : o.id # rpl.you.id
    /\ \A r \in ValidRooms : \A i \in Ops(r, "who") :
          LET e == hist[r][i] IN
          /\ e.you = SessionAt(r, i, e.conn)
          /\ e.others = {SessionAt(r, i, m) : m \in MembersAt(r, i) \ {e.conn}}
          /\ IF ReplyPending(e.conn, e.id) THEN RepliesTo(e.conn, e.id) = {}
             ELSE /\ Cardinality(RepliesTo(e.conn, e.id)) = 1
                  /\ \A k \in RepliesTo(e.conn, e.id) :
                        sink[e.conn][k].packet =
                            Rpl(e.id, "WhoRpl", [you |-> e.you, others |-> e.others])

\* a WhoRpl and an IdentifyRpl::Success that list another member
C8_Witness ==
    /\ \E c \in Conns : \E k \in Idx(c, "WhoRpl", c) : sink[c][k].packet.others # {}
    /\ \E c \in Conns : \E k \in Idx(c, "IdentifyRpl::Success", c) :
          sink[c][k].packet.others # {} /\ Joined(c)

Invalid == {"SendRpl::InvalidContent", "NickRpl::InvalidNick"}

\* this step is connection c, in the command loop, answering Invalid*
InvalidStep(c) ==
    /\ pc[c] = "run"
    /\ Len(sink'[c]) = Len(sink[c]) + 1
    /\ sink'[c][Len(sink'[c])].by = c
    /\ sink'[c][Len(sink'[c])].packet.kind \in Invalid

\* C9: a SendCmd or NickCmd that fails validation is answered by the
\* correlated Invalid* reply and nothing else happens: no packet to any other
\* sink, the room (members, nicks, last_message, last_timestamp) and the
\* session's nick as they were, the session still in the loop and the room.
C9_ValidationFailureChangesNothing ==
    [][\A c \in Conns : InvalidStep(c) =>
          LET rpl == sink'[c][Len(sink'[c])].packet IN
          /\ rpl.id = nrecv'[c] /\ nrecv'[c] = nrecv[c] + 1
          /\ rpl.reason = "empty"
          /\ SubSeq(sink'[c], 1, Len(sink[c])) = sink[c]
          /\ \A d \in Conns \ {c} : sink'[d] = sink[d]
          /\ rooms' = rooms /\ hist' = hist
          /\ session' = session /\ pend' = pend
          /\ pc'[c] = "run"
          /\ c \in Members(rooms'[roomName'[c]])
          /\ rooms'[roomName'[c]].clients[session'[c].id].session = session'[c]
      ]_vars

\* a member of a room that has a message was answered InvalidContent and is
\* back in the command loop
C9_Witness ==
    \E c \in Conns :
        /\ pc[c] = "run"
        /\ Len(sink[c]) > 0
        /\ sink[c][Len(sink[c])].packet.kind = "SendRpl::InvalidContent"
        /\ SendOps(roomName[c]) # {}

ProtocolError(c) == result[c] = "Err(unexpected packet)"

\* C11: a Room or Identify command, a Rpl or a Ntf read in the command loop
\* ends the loop with an error and leaves the room as it was (members, nicks,
\* last_message, last_timestamp, nothing sent); the task then leaves the wait
\* for the room only through part(session.id): the session is removed and
\* every remaining member is sent PartNtf{who}.
C11_ProtocolErrorThenPart ==
    [][\A c \in Conns :
          /\ (pc[c] = "run" /\ pc'[c] = "part_lock" /\ ProtocolError(c)')
                => /\ rooms' = rooms /\ sink' = sink /\ hist' = hist
                   /\ session' = session
          /\ (pc[c] = "part_lock" /\ ProtocolError(c) /\ pc'[c] # "part_lock")
                => LET r == roomName[c] IN
                   /\ c \notin Members(rooms'[r])
                   /\ rooms'[r].last_message = rooms[r].last_message
                   /\ rooms'[r].last_timestamp = rooms[r].last_timestamp
                   /\ \A m \in Members(rooms'[r]) :
                         /\ Len(sink'[m]) = Len(sink[m]) + 1
                         /\ sink'[m][Len(sink'[m])] =
                               [packet |-> Ntf("PartNtf", session[c]), by |-> c]
      ]_vars

NegotiationInvalid == {"RoomRpl::InvalidRoom", "IdentifyRpl::InvalidNick"}

\* this step is connection c, in a negotiation loop, answering Invalid*
NegotiationInvalidStep(c) ==
    /\ pc[c] \in {"negotiate_room", "negotiate_identity"}
    /\ Len(sink'[c]) = Len(sink[c]) + 1
    /\ sink'[c][Len(sink'[c])].by = c
    /\ sink'[c][Len(sink'[c])].packet.kind \in NegotiationInvalid

\* C12: an invalid room name is answered RoomRpl::InvalidRoom{reason} and an
\* invalid identity or nick IdentifyRpl::InvalidNick{reason}, the reason of
\* the identity going first; the connection stays in the same loop, has no
\* session, is in no room, and no other connection is sent anything.
C12_NegotiationStaysOnInvalid ==
    [][/\ \A c \in Conns : NegotiationInvalidStep(c) =>
             LET rpl == sink'[c][Len(sink'[c])].packet IN
             /\ rpl.kind = IF pc[c] = "negotiate_room" THEN "RoomRpl::InvalidRoom"
                           ELSE "IdentifyRpl::InvalidNick"
             /\ rpl.id = nrecv'[c] /\ nrecv'[c] = nrecv[c] + 1
             /\ rpl.reason # None
             /\ pc'[c] = pc[c]
             /\ SubSeq(sink'[c], 1, Len(sink[c])) = sink[c]
             /\ \A d \in Conns \ {c} : sink'[d] = sink[d]
             /\ rooms' = rooms /\ hist' = hist
             /\ session' = session /\ roomName' = roomName
             /\ session'[c] = NoSession
             /\ ~ Joined(c)
             /\ \A r \in DOMAIN rooms' : c \notin Members(rooms'[r])
             /\ \A d \in Conns \ {c} : \A k \in 1 .. Len(sink'[d]) : sink'[d][k].by # c
       /\ \A nick \in IdentifyNickInputs, identity \in IdentityInputs :
             IdentifyReason(nick, identity) =
                 IF check_identity(identity) # None THEN check_identity(identity)
                 ELSE check_nick(nick)
      ]_vars

\* a connection was refused a room name and a nick, and then joined a room
C12_Witness ==
    \E c \in Conns :
        /\ Idx(c, "RoomRpl::InvalidRoom", c) # {}
        /\ \E k \in Idx(c, "IdentifyRpl::InvalidNick", c) :
              sink[c][k].packet.reason = "control character"
        /\ Idx(c, "IdentifyRpl::Success", c) # {}
        /\ Joined(c)

NtfKinds == {"JoinNtf", "PartNtf", "NickNtf", "SendNtf"}

\* the notification operation i of hist[r] broadcasts
NtfOf(r, i) ==
    LET e == hist[r][i] IN
    CASE e.op = "join" -> Ntf("JoinNtf", e.who)
      [] e.op = "part" -> Ntf("PartNtf", SessionAt(r, i, e.conn))
      [] e.op = "nick" -> Ntf("NickNtf", SessionAt(r, i + 1, e.conn))
      [] e.op = "send" -> SendNtfPacket(e.message)

\* the operations of hist[r] that notify member m, and the k-th of them
NotifiedOps(r, m) ==
    {i \in 1 .. Len(hist[r]) :
        /\ hist[r][i].op \in {"join", "part", "nick", "send"}
        /\ hist[r][i].conn # m
        /\ m \in MembersAt(r, i)}
Nth(S, k) == CHOOSE i \in S : Cardinality({j \in S : j < i}) = k - 1

\* the notifications handed to the sink of m, in the order of the calls
Received(m) == SelectSeq(sink[m], LAMBDA x : x.packet.kind \in NtfKinds)

\* C14: the notifications a member is sent are those of the operations run
\* on its room while it is a member, one each, in the order in which the
\* operations held the room's mutex; so two notifications sent to two
\* members reach both in the same relative order.
C14_NotificationOrder ==
    \A m \in Conns :
        IF Joined(m)
        THEN LET r == JoinRoom(m)
                 S == NotifiedOps(r, m)
             IN /\ Len(Received(m)) = Cardinality(S)
                /\ \A k \in 1 .. Len(Received(m)) :
                      Received(m)[k] = [packet |-> NtfOf(r, Nth(S, k)),
                                        by |-> hist[r][Nth(S, k)].conn]
        ELSE Received(m) = << >>

\* two members of a room were both sent the same two notifications, and one
\* of them notifications of two other tasks
C14_Witness ==
    \E x, y \in Conns : \E r \in ValidRooms :
        /\ x # y
        /\ Joined(x) /\ Joined(y) /\ JoinRoom(x) = r /\ JoinRoom(y) = r
        /\ \E i, j \in NotifiedOps(r, x) \cap NotifiedOps(r, y) : i < j
        /\ \E i, j \in NotifiedOps(r, x) : i < j /\ hist[r][i].conn # hist[r][j].conn

\* C13: a task holds at most one mutex, holds none while it waits for one,
\* and holds the mutex of Server.rooms only inside Server::room; the holder of
\* a mutex never waits, so no state is a deadlock, and every task that waits
\* for a mutex is granted it, unless the task is dropped while it waits.
C13_LockDiscipline ==
    /\ [](\A c \in Conns :
            /\ Cardinality(Held(c)) <= 1
            /\ Waiting(c) => Held(c) = {}
            /\ \A m \in Held(c) : pc[c] \in LockPoints /\ m = Requested(c)
            /\ MapMutex \in Held(c) => pc[c] = "rooms_lock"
            /\ Waiting(c) =>
                  \/ mutex[Requested(c)] = 0
                  \/ ~ Waiting(mutex[Requested(c)]))
    /\ \A c \in Conns : Waiting(c) ~> (Held(c) # {} \/ pc[c] = "terminated")

\* a task waits for the mutex of a room that another task holds
C13_Witness ==
    \E c, d \in Conns :
        /\ c # d
        /\ Waiting(c)
        /\ Requested(c) # MapMutex
        /\ mutex[Requested(c)] = d

\* ======================================= client: the tree layout engine
\* (src/ui/chat/tree/layout.rs).  Message ids are 1, 2, ... in the order of
\* their timestamps; 0 stands for Option::None of an id and for Root::Bottom.
SCROLLOFF == 2
MIN_CONTENT_HEIGHT == 10

MaxPasses == 2      \* relayout passes in one run
MaxScroll == 3      \* largest scroll delta pending at a pass
EditorLines == 2    \* rows of the editor widget
PseudoLines == 1    \* rows of a pseudo message
FoldInfoLines == 1  \* rows the "[N more]" line adds to a folded message

\* The stores laid out: parent[i] is the parent of message i (0: a root),
\* lines[i] the rows its widget takes.  The second is the store of scenario
\* S6: T1 = {m1}, T2 = {m2 -> m2a}; the third and the fourth are the same
\* trees with taller messages (the fourth serves scenario S7).
Stores ==
    {[parent |-> << >>, lines |-> << >>],
     [parent |-> <<0, 0, 2>>, lines |-> <<1, 1, 1>>],
     [parent |-> <<0, 0, 2>>, lines |-> <<5, 12, 4>>],
     [parent |-> <<0, 0, 2>>, lines |-> <<2, 4, 1>>],
     [parent |-> <<0, 0, 2, 3, 2>>, lines |-> <<2, 1, 3, 1, 2>>]}

\* frame.size().height
FrameHeights == {4, 10, 14}
Scrolls == {-MaxScroll, -1, 0, 1, MaxScroll}
Corrections == {"None", "MakeCursorVisible", "MoveCursorToVisibleArea", "CenterCursor"}

Min(a, b) == IF a <= b THEN a ELSE b

\* i32 division, which truncates towards zero
Div(a, b) == IF a >= 0 THEN a \div b ELSE -((-a) \div b)

scrolloff(height) == Min(Div(Max(height - MIN_CONTENT_HEIGHT, 0), 2), SCROLLOFF)

\* ------------------------------------------------------------ the store
Msgs(store) == 1 .. Len(store.parent)
last_possible_id(store) == Len(store.parent) + 1

RECURSIVE path(_, _)
path(store, id) ==
    IF store.parent[id] = 0 THEN <<id>>
    ELSE Append(path(store, store.parent[id]), id)

TreeIds(store) == {i \in Msgs(store) : store.parent[i] = 0}
MaxOf(S) == IF S = {} THEN 0 ELSE CHOOSE k \in S : \A l \in S : l <= k
MinOf(S) == IF S = {} THEN 0 ELSE CHOOSE k \in S : \A l \in S : k <= l
last_tree_id(store) == MaxOf(TreeIds(store))
prev_tree_id(store, id) == MaxOf({r \in TreeIds(store) : r < id})
next_tree_id(store, id) == MinOf({r \in TreeIds(store) : r > id})

\* Tree::children(id), in order, and Tree::subtree_size(id)
Children(store, id) == {i \in Msgs(store) : store.parent[i] = id}
Descendants(store, id) ==
    {i \in Msgs(store) : i # id /\ \E k \in 1 .. Len(path(store, i)) : path(store, i)[k] = id}
subtree_size(store, id) == Cardinality(Descendants(store, id))

\* Path: `<` of two paths (lexicographic), parent_segments, first
PathLess(p, q) ==
    \E k \in 1 .. Len(q) :
        /\ \A j \in 1 .. k - 1 : j <= Len(p) /\ p[j] = q[j]
        /\ \/ Len(p) = k - 1
           \/ Len(p) >= k /\ p[k] < q[k]
parent_segments(p) == {p[k] : k \in 1 .. Len(p) - 1}

\* ----------------------------------------------------------- the cursor
CursorBottom == [kind |-> "Bottom", id |-> 0]
CursorMsg(id) == [kind |-> "Msg", id |-> id]
CursorEditor(parent) == [kind |-> "Editor", id |-> parent]
CursorPseudo(parent) == [kind |-> "Pseudo", id |-> parent]
Cursors(store) ==
    {CursorBottom} \cup {CursorMsg(i) : i \in Msgs(store)}
        \cup {CursorEditor(i) : i \in {0} \cup Msgs(store)}
        \cup {CursorPseudo(i) : i \in {0} \cup Msgs(store)}

refers_to(cursor, id) == cursor.kind = "Msg" /\ cursor.id = id
refers_to_last_child_of(cursor, id) == cursor.kind \in {"Editor", "Pseudo"} /\ cursor.id = id

\* BlockId and BlockId::from_cursor
BlockMsg(id) == [kind |-> "Msg", id |-> id]
BlockCursor == [kind |-> "Cursor", id |-> 0]
BlockLastCursor == [kind |-> "LastCursor", id |-> 0]
from_cursor(cursor) == IF cursor.kind = "Msg" THEN BlockMsg(cursor.id) ELSE BlockCursor

\* ------------------------------------------------- Block and TreeBlocks
\* Block::new: placed at line 0, the focus is the whole block
BlockNew(id, height) ==
    [id |-> id, top_line |-> 0, height |-> height, focus |-> [start |-> 0, end |-> height]]

TreeBlocksNew(top_root, bottom_root) ==
    [blocks |-> << >>, top_line |-> 0, bottom_line |-> -1,
     top_root |-> top_root, bottom_root |-> bottom_root]

push_back(tb, block) ==
    [tb EXCEPT !.blocks = Append(@, [block EXCEPT !.top_line = tb.bottom_line + 1]),
               !.bottom_line = @ + block.height]

push_front(tb, block) ==
    [tb EXCEPT !.blocks = <<[block EXCEPT !.top_line = tb.top_line - block.height]>> \o @,
               !.top_line = @ - block.height]

RECURSIVE PrependBlocks(_, _)
PrependBlocks(tb, bs) ==
    IF bs = << >> THEN tb
    ELSE PrependBlocks(push_front(tb, bs[Len(bs)]), SubSeq(bs, 1, Len(bs) - 1))

RECURSIVE AppendBlocks(_, _)
AppendBlocks(tb, bs) ==
    IF bs = << >> THEN tb
    ELSE AppendBlocks(push_back(tb, Head(bs)), Tail(bs))

prepend(tb, other) == [PrependBlocks(tb, other.blocks) EXCEPT !.top_root = other.top_root]
append(tb, other) == [AppendBlocks(tb, other.blocks) EXCEPT !.bottom_root = other.bottom_root]

offset(tb, delta) ==
    [tb EXCEPT !.top_line = @ + delta,
               !.bottom_line = @ + delta,
               !.blocks = [i \in DOMAIN tb.blocks |->
                              [tb.blocks[i] EXCEPT !.top_line = @ + delta]]]

set_top_line(tb, line) == offset(tb, line - tb.top_line)
set_bottom_line(tb, line) == offset(tb, line - tb.bottom_line)

\* Blocks::find: the position of the first block with this id, 0 if none
find(tb, id) == MinOf({k \in 1 .. Len(tb.blocks) : tb.blocks[k].id = id})

recalculate_offsets(tb, id, line) ==
    IF find(tb, id) = 0 THEN tb
    ELSE offset(tb, line - tb.blocks[find(tb, id)].top_line)

\* --------------------------------------------------- InnerTreeViewState
\* v is the state of the view: store, height (of the frame), cursor,
\* last_cursor, last_cursor_line, last_visible_msgs, correction, scroll,
\* folded, and editor_row, the row of the text cursor in the editor widget.
cursor_path(v, cursor) ==
    IF cursor.kind = "Msg" THEN path(v.store, cursor.id)
    ELSE IF cursor.id = 0 THEN <<last_possible_id(v.store)>>
    ELSE Append(path(v.store, cursor.id), last_possible_id(v.store))

\* make_path_visible that unfolds the last segment of the path too
make_path_visibleWhole(v, p) == [v EXCEPT !.folded = @ \ {p[k] : k \in 1 .. Len(p)}]

make_path_visible(v, p) == [v EXCEPT !.folded = @ \ parent_segments(p)]

\* find(..).expect("no cursor found") has nothing to return
NoCursorFound(v, tb) == find(tb, from_cursor(v.cursor)) = 0

cursor_line(v, tb) ==
    IF v.cursor.kind = "Bottom" THEN 0
    ELSE tb.blocks[find(tb, from_cursor(v.cursor))].top_line

contains_cursor(v, tb) == find(tb, from_cursor(v.cursor)) # 0

editor_block(v) ==
    [BlockNew(BlockCursor, EditorLines) EXCEPT
        !.focus = [start |-> v.editor_row, end |-> v.editor_row + 1]]

pseudo_block(v) == BlockNew(BlockCursor, PseudoLines)

RECURSIVE layout_subtree(_, _, _)
RECURSIVE layout_children(_, _, _)

\* `if cond { blocks.blocks_mut().push_back(block) }`
push_back_if(cond, tb, block) == IF cond THEN push_back(tb, block) ELSE tb

\* the block one of the cursors gets below the last child of a message
cursor_block(v) == IF v.cursor.kind = "Editor" THEN editor_block(v) ELSE pseudo_block(v)

\* the block of the message itself, one line taller when it hides a subtree
msg_block(v, id) ==
    BlockNew(BlockMsg(id),
             v.store.lines[id]
                 + (IF id \in v.folded /\ subtree_size(v.store, id) > 0
                    THEN FoldInfoLines ELSE 0))

\* layout_subtree that lays out the children of a folded message too
layout_subtreeIgnoreFold(v, id, tb) ==
    push_back_if(refers_to_last_child_of(v.cursor, id),
        push_back_if(refers_to_last_child_of(v.last_cursor, id),
            layout_children(v, Children(v.store, id),
                push_back(
                    push_back_if(refers_to(v.last_cursor, id), tb,
                                 BlockNew(BlockLastCursor, 0)),
                    msg_block(v, id))),
            BlockNew(BlockLastCursor, 0)),
        cursor_block(v))

\* read inside out: the ghost of the last cursor on the message, the message,
\* its children unless it is folded, the ghost of the last cursor below the
\* children, the editor or pseudo message of the cursor below the children
layout_subtree(v, id, tb) ==
    push_back_if(refers_to_last_child_of(v.cursor, id),
        push_back_if(refers_to_last_child_of(v.last_cursor, id),
            layout_children(v, IF id \in v.folded THEN {} ELSE Children(v.store, id),
                push_back(
                    push_back_if(refers_to(v.last_cursor, id), tb,
                                 BlockNew(BlockLastCursor, 0)),
                    msg_block(v, id))),
            BlockNew(BlockLastCursor, 0)),
        cursor_block(v))

\* `for child in children`: the children still to lay out, smallest id first
layout_children(v, todo, tb) ==
    IF todo = {} THEN tb
    ELSE layout_children(v, todo \ {MinOf(todo)}, layout_subtree(v, MinOf(todo), tb))

layout_tree(v, root) == layout_subtree(v, root, TreeBlocksNew(root, root))

layout_bottom(v) ==
    LET b0 == TreeBlocksNew(0, 0)
        b1 == IF v.last_cursor.kind \in {"Editor", "Pseudo"} /\ v.last_cursor.id = 0
              THEN push_back(b0, BlockNew(BlockLastCursor, 0)) ELSE b0
    IN CASE v.cursor.kind = "Bottom" -> push_back(b1, BlockNew(BlockCursor, 0))
         [] v.cursor.kind = "Editor" /\ v.cursor.id = 0 -> push_back(b1, editor_block(v))
         [] v.cursor.kind = "Pseudo" /\ v.cursor.id = 0 -> push_back(b1, pseudo_block(v))
         [] OTHER -> b1

RECURSIVE expand_to_top(_, _)
expand_to_top(v, tb) ==
    IF tb.top_line > 0
    THEN LET prev == IF tb.top_root = 0 THEN last_tree_id(v.store)
                     ELSE prev_tree_id(v.store, tb.top_root)
         IN IF prev = 0 THEN tb
            ELSE expand_to_top(v, prepend(tb, layout_tree(v, prev)))
    ELSE tb

RECURSIVE expand_to_bottom(_, _)
expand_to_bottom(v, tb) ==
    IF tb.bottom_line < v.height - 1
    THEN IF tb.bottom_root = 0 THEN tb
         ELSE IF next_tree_id(v.store, tb.bottom_root) # 0
         THEN expand_to_bottom(v, append(tb, layout_tree(v, next_tree_id(v.store, tb.bottom_root))))
         ELSE expand_to_bottom(v, append(tb, layout_bottom(v)))
    ELSE tb

\* `if blocks.blocks().top_line > 0 { blocks.blocks_mut().set_top_line(0) }`
clamp_top(tb) == IF tb.top_line > 0 THEN set_top_line(tb, 0) ELSE tb

\* fill_screen_and_clamp_scrolling without the clamp of the bottom line
clamp_bottomNone(v, tb) == tb

\* `if blocks.blocks().bottom_line < bottom_line { ...set_bottom_line(bottom_line) }`
clamp_bottom(v, tb) ==
    IF tb.bottom_line < v.height - 1 THEN set_bottom_line(tb, v.height - 1) ELSE tb

\* fill_screen_and_clamp_scrolling without the two clamps
fill_screen_and_clamp_scrollingNoClamp(v, tb) ==
    expand_to_top(v, expand_to_bottom(v, expand_to_top(v, tb)))

fill_screen_and_clamp_scrolling(v, tb) ==
    expand_to_top(v, clamp_bottom(v, expand_to_bottom(v, clamp_top(expand_to_top(v, tb)))))

\* layout_last_cursor_seed that puts the ghost of the last cursor on line 0
layout_last_cursor_seedTop(v, last_cursor_path) ==
    IF v.last_cursor.kind = "Bottom"
    THEN set_bottom_line(layout_bottom(v), v.height - 1)
    ELSE IF v.last_cursor.kind \in {"Editor", "Pseudo"} /\ v.last_cursor.id = 0
    THEN recalculate_offsets(layout_bottom(v), BlockLastCursor, 0)
    ELSE recalculate_offsets(layout_tree(v, last_cursor_path[1]), BlockLastCursor, 0)

layout_last_cursor_seed(v, last_cursor_path) ==
    IF v.last_cursor.kind = "Bottom"
    THEN set_bottom_line(layout_bottom(v), v.height - 1)
    ELSE IF v.last_cursor.kind \in {"Editor", "Pseudo"} /\ v.last_cursor.id = 0
    THEN recalculate_offsets(layout_bottom(v), BlockLastCursor, v.last_cursor_line)
    ELSE recalculate_offsets(layout_tree(v, last_cursor_path[1]), BlockLastCursor,
                             v.last_cursor_line)

layout_cursor_seed(v, last_cursor_path, cpath) ==
    IF v.cursor.kind = "Bottom" \/ (v.cursor.kind \in {"Editor", "Pseudo"} /\ v.cursor.id = 0)
    THEN set_bottom_line(layout_bottom(v), v.height - 1)
    ELSE recalculate_offsets(layout_tree(v, cpath[1]), from_cursor(v.cursor),
                             IF PathLess(cpath, last_cursor_path) THEN 0 ELSE v.height - 1)

layout_initial_seed(v, last_cursor_path, cpath) ==
    IF v.cursor.kind = "Bottom" THEN layout_cursor_seed(v, last_cursor_path, cpath)
    ELSE layout_last_cursor_seed(v, last_cursor_path)

\* scroll_so_cursor_is_visible with the clamp in the order of i32::clamp
scroll_so_cursor_is_visibleBottomFirst(v, tb) ==
    IF v.cursor.kind = "Bottom" \/ NoCursorFound(v, tb) THEN tb
    ELSE LET block == tb.blocks[find(tb, from_cursor(v.cursor))]
             min_line == -block.focus.start + scrolloff(v.height)
             max_line == v.height - block.focus.end - scrolloff(v.height)
             new_top_line == Min(Max(block.top_line, min_line), max_line)
         IN IF new_top_line # block.top_line
            THEN offset(tb, new_top_line - block.top_line) ELSE tb

scroll_so_cursor_is_visible(v, tb) ==
    IF v.cursor.kind = "Bottom" \/ NoCursorFound(v, tb) THEN tb
    ELSE LET block == tb.blocks[find(tb, from_cursor(v.cursor))]
             min_line == -block.focus.start + scrolloff(v.height)
             max_line == v.height - block.focus.end - scrolloff(v.height)
             new_top_line == Max(Min(block.top_line, max_line), min_line)
         IN IF new_top_line # block.top_line
            THEN offset(tb, new_top_line - block.top_line) ELSE tb

\* scroll_so_cursor_is_centered that centres the top line of the block
scroll_so_cursor_is_centeredTopLine(v, tb) ==
    IF v.cursor.kind = "Bottom" \/ NoCursorFound(v, tb) THEN tb
    ELSE LET block == tb.blocks[find(tb, from_cursor(v.cursor))]
             min_line == -block.focus.start + scrolloff(v.height)
             max_line == v.height - block.focus.end - scrolloff(v.height)
             new_top_line == Max(Min(Div(v.height, 2), max_line), min_line)
         IN IF new_top_line # block.top_line
            THEN offset(tb, new_top_line - block.top_line) ELSE tb

scroll_so_cursor_is_centered(v, tb) ==
    IF v.cursor.kind = "Bottom" \/ NoCursorFound(v, tb) THEN tb
    ELSE LET block == tb.blocks[find(tb, from_cursor(v.cursor))]
             min_line == -block.focus.start + scrolloff(v.height)
             max_line == v.height - block.focus.end - scrolloff(v.height)
             new_top_line == Max(Min(Div(v.height - block.height, 2), max_line), min_line)
         IN IF new_top_line # block.top_line
            THEN offset(tb, new_top_line - block.top_line) ELSE tb

\* visible that asks for the whole block to lie between the two lines
visibleWhole(block, first_line, last_line) ==
    first_line <= block.top_line /\ block.top_line + block.height - 1 <= last_line

visible(block, first_line, last_line) ==
    first_line + 1 - block.height <= block.top_line /\ block.top_line <= last_line

\* the positions of the Msg blocks visible between the two lines
VisibleMsgBlocks(tb, first_line, last_line) ==
    {k \in 1 .. Len(tb.blocks) :
        visible(tb.blocks[k], first_line, last_line) /\ tb.blocks[k].id.kind = "Msg"}

\* move_cursor_so_it_is_visible that treats an editor or a pseudo message as
\* a cursor at the bottom
move_cursor_so_it_is_visibleAnyCursor(v, tb) ==
    LET first_line == scrolloff(v.height)
        last_line == v.height - 1 - scrolloff(v.height)
        S == VisibleMsgBlocks(tb, first_line, last_line)
        forward == IF S = {} THEN 0 ELSE tb.blocks[MinOf(S)].id.id
        reverse == IF S = {} THEN 0 ELSE tb.blocks[MaxOf(S)].id.id
    IN IF v.cursor.kind # "Msg" THEN reverse
       ELSE IF NoCursorFound(v, tb) THEN 0
       ELSE LET block == tb.blocks[find(tb, from_cursor(v.cursor))] IN
            IF visible(block, first_line, last_line) THEN 0
            ELSE IF block.top_line < first_line THEN forward
            ELSE reverse

\* move_cursor_so_it_is_visible that walks the blocks in reverse in every case
move_cursor_so_it_is_visibleReverse(v, tb) ==
    LET first_line == scrolloff(v.height)
        last_line == v.height - 1 - scrolloff(v.height)
        S == VisibleMsgBlocks(tb, first_line, last_line)
        reverse == IF S = {} THEN 0 ELSE tb.blocks[MaxOf(S)].id.id
    IN IF v.cursor.kind \notin {"Bottom", "Msg"} THEN 0
       ELSE IF v.cursor.kind = "Bottom" THEN reverse
       ELSE IF NoCursorFound(v, tb) THEN 0
       ELSE IF visible(tb.blocks[find(tb, from_cursor(v.cursor))], first_line, last_line)
            THEN 0
       ELSE reverse

\* move_cursor_so_it_is_visible: the id of the new cursor, 0 for Option::None
move_cursor_so_it_is_visible(v, tb) ==
    LET first_line == scrolloff(v.height)
        last_line == v.height - 1 - scrolloff(v.height)
        S == VisibleMsgBlocks(tb, first_line, last_line)
        forward == IF S = {} THEN 0 ELSE tb.blocks[MinOf(S)].id.id
        reverse == IF S = {} THEN 0 ELSE tb.blocks[MaxOf(S)].id.id
    IN IF v.cursor.kind \notin {"Bottom", "Msg"} THEN 0
       ELSE IF v.cursor.kind = "Bottom" THEN reverse
       ELSE IF NoCursorFound(v, tb) THEN 0
       ELSE LET block == tb.blocks[find(tb, from_cursor(v.cursor))] IN
            IF visible(block, first_line, last_line) THEN 0
            ELSE IF block.top_line < first_line THEN forward
            ELSE reverse

RECURSIVE MsgIds(_)
MsgIds(bs) ==
    IF bs = << >> THEN << >>
    ELSE IF Head(bs).id.kind = "Msg" THEN <<Head(bs).id.id>> \o MsgIds(Tail(bs))
    ELSE MsgIds(Tail(bs))

visible_msgs(v, tb) ==
    MsgIds(SelectSeq(tb.blocks, LAMBDA block : visible(block, 0, v.height - 1)))

\* lines 556-560 (and 534-538): what relayout stores at the end of a pass
Commit(v, tb) ==
    [v EXCEPT !.last_cursor = v.cursor,
              !.last_cursor_line = cursor_line(v, tb),
              !.last_visible_msgs = visible_msgs(v, tb),
              !.scroll = 0,
              !.correction = "None"]

\* relayout, in the order of its lines. v1 is the state once the path to the
\* cursor is unfolded, b1 the screen laid out around the last cursor, b2 the
\* screen that holds the cursor, new the message the cursor was moved to (0 if
\* it was not moved), v2 the state after the move, b3 the corrected screen.

\* relayout that keeps the screen laid out around the last cursor
relayout_cursor_seedKept(v1, last_cursor_path, cpath, b1) == b1

\* lines 513-519
relayout_cursor_seed(v1, last_cursor_path, cpath, b1) ==
    IF ~ contains_cursor(v1, b1)
    THEN fill_screen_and_clamp_scrolling(v1, layout_cursor_seed(v1, last_cursor_path, cpath))
    ELSE b1

\* lines 528-538
relayout_moved(v1, b2, new) ==
    IF new # 0 THEN Commit([v1 EXCEPT !.cursor = CursorMsg(new)], b2) ELSE v1

\* lines 521-554
relayout_correction(v1, b2, new, v2) ==
    CASE v1.correction = "MakeCursorVisible" ->
             fill_screen_and_clamp_scrolling(v1, scroll_so_cursor_is_visible(v1, b2))
      [] v1.correction = "CenterCursor" ->
             fill_screen_and_clamp_scrolling(v1, scroll_so_cursor_is_centered(v1, b2))
      [] new # 0 ->
             fill_screen_and_clamp_scrolling(
                 v2, layout_last_cursor_seed(v2, path(v2.store, new)))
      [] OTHER -> b2

\* an expect("no cursor found") of lines 523-549 or of line 557 has no block
relayout_panics(v1, b2, v2, b3) ==
    \/ /\ v1.cursor.kind # "Bottom"
       /\ NoCursorFound(v1, b2)
       /\ \/ v1.correction \in {"MakeCursorVisible", "CenterCursor"}
          \/ v1.correction = "MoveCursorToVisibleArea" /\ v1.cursor.kind = "Msg"
    \/ v2.cursor.kind # "Bottom" /\ NoCursorFound(v2, b3)

\* relayout that commits on the blocks laid out before the correction
relayout_commitPlaced(b2, new, v2, b3, panic) ==
    [state |-> IF panic THEN v2 ELSE Commit(v2, b2),
     blocks |-> b3, placed |-> b2, moved |-> new # 0, panic |-> panic]

\* lines 556-562: [state, blocks] after the pass, with what the pass went
\* through: placed, the blocks before the correction; moved, whether the
\* cursor was moved and the screen laid out again; panic, whether an
\* expect() found no cursor block.
relayout_commit(b2, new, v2, b3, panic) ==
    [state |-> IF panic THEN v2 ELSE Commit(v2, b3),
     blocks |-> b3, placed |-> b2, moved |-> new # 0, panic |-> panic]

relayout_corrected(v1, b2, new, v2, b3) ==
    relayout_commit(b2, new, v2, b3, relayout_panics(v1, b2, v2, b3))

relayout_match(v1, b2, new, v2) ==
    relayout_corrected(v1, b2, new, v2, relayout_correction(v1, b2, new, v2))

relayout_placed(v1, b2, new) == relayout_match(v1, b2, new, relayout_moved(v1, b2, new))

relayout_seeded(v1, b2) ==
    relayout_placed(v1, b2,
                    IF v1.correction = "MoveCursorToVisibleArea"
                    THEN move_cursor_so_it_is_visible(v1, b2) ELSE 0)

\* lines 506-519
relayout_paths(v1, last_cursor_path, cpath) ==
    relayout_seeded(v1,
        relayout_cursor_seed(v1, last_cursor_path, cpath,
            fill_screen_and_clamp_scrolling(
                v1, offset(layout_initial_seed(v1, last_cursor_path, cpath), v1.scroll))))

relayout(v) ==
    relayout_paths(make_path_visible(v, cursor_path(v, v.cursor)),
                   cursor_path(v, v.last_cursor), cursor_path(v, v.cursor))

\* ------------------------------------------------------ the layout passes
\* InnerTreeViewState::new, for a store and a frame height
NewState(store, height) ==
    [store |-> store, height |-> height,
     cursor |-> CursorBottom, last_cursor |-> CursorBottom, last_cursor_line |-> 0,
     last_visible_msgs |-> << >>, correction |-> "None", scroll |-> 0,
     folded |-> {}, editor_row |-> 0]

\* view: n passes were made; state is the InnerTreeViewState; entry is the
\* state the last pass was called on; blocks, placed, moved and panic are
\* what relayout returned
LayoutInit ==
    /\ rooms = << >>
    /\ pc = [c \in Conns |-> "listen"]
    /\ roomName = [c \in Conns |-> None]
    /\ session = [c \in Conns |-> NoSession]
    /\ pend = [c \in Conns |-> NoCmd]
    /\ sink = [c \in Conns |-> << >>]
    /\ nrecv = [c \in Conns |-> 0]
    /\ result = [c \in Conns |-> None]
    /\ left = [conns |-> 0, rooms |-> 0, seeds |-> 0, cmds |-> 0, invalid |-> 0]
    /\ hist = [n \in ValidRooms |-> << >>]
    /\ mutex = [m \in Mutexes |-> 0]
    /\ runs = None
    /\ vault = None
    /\ \E store \in Stores, height \in FrameHeights :
          view = [pass |-> "new", n |-> 0, state |-> NewState(store, height)]

ServerVars == <<rooms, pc, roomName, session, pend, sink, nrecv, result, left, hist, mutex>>

\* the next redraw: relayout is called on the state the event left
PassResult(input, res) ==
    view' = [pass |-> IF res.panic THEN "panic" ELSE "relayout",
             n |-> view.n + 1,
             state |-> res.state,
             entry |-> input,
             blocks |-> res.blocks,
             placed |-> res.placed,
             moved |-> res.moved]

Pass(input) == PassResult(input, relayout(input)) /\ UNCHANGED <<ServerVars, runs, vault>>

CanPass == view.pass \in {"new", "relayout"} /\ view.n < MaxPasses

\* the cursor is moved (to a message, the bottom, an editor or a pseudo message)
MoveCursor ==
    /\ CanPass
    /\ \E cursor \in Cursors(view.state.store), correction \in Corrections,
          row \in 0 .. EditorLines - 1 :
          /\ row # 0 => cursor.kind = "Editor"
          /\ Pass([view.state EXCEPT !.cursor = cursor, !.correction = correction,
                                     !.editor_row = row])

\* the view is scrolled
Scroll ==
    /\ CanPass
    /\ \E delta \in Scrolls \ {0}, correction \in Corrections :
          Pass([view.state EXCEPT !.scroll = delta, !.correction = correction])

\* a message is folded or unfolded
ToggleFold ==
    /\ CanPass
    /\ \E id \in Msgs(view.state.store) :
          Pass([view.state EXCEPT
                   !.folded = IF id \in @ THEN @ \ {id} ELSE @ \cup {id}])

\* the terminal is resized
Resize ==
    /\ CanPass
    /\ \E height \in FrameHeights \ {view.state.height}, correction \in Corrections :
          Pass([view.state EXCEPT !.height = height, !.correction = correction])

\* the screen is drawn again with nothing changed
Redraw ==
    /\ view.pass = "relayout"
    /\ view.n <= MaxPasses
    /\ Pass(view.state)

LayoutNext == MoveCursor \/ Scroll \/ ToggleFold \/ Resize \/ Redraw

LayoutSpec == LayoutInit /\ [][LayoutNext]_vars

\* ------------------------------------------------- two runs of the server
\* Two processes of the server, each with its own Server.rooms, each followed
\* from its start to the first connection greeted in a fresh room.  rnd is
\* the number the random generator yielded in Room::new.  The server of the
\* other specifications accepts no connection and no layout pass is made.
SeedInit ==
    /\ rooms = << >>
    /\ pc = [c \in Conns |-> "listen"]
    /\ roomName = [c \in Conns |-> None]
    /\ session = [c \in Conns |-> NoSession]
    /\ pend = [c \in Conns |-> NoCmd]
    /\ sink = [c \in Conns |-> << >>]
    /\ nrecv = [c \in Conns |-> 0]
    /\ result = [c \in Conns |-> None]
    /\ left = [conns |-> 0, rooms |-> 0, seeds |-> 0, cmds |-> 0, invalid |-> 0]
    /\ hist = [n \in ValidRooms |-> << >>]
    /\ mutex = [m \in Mutexes |-> 0]
    /\ view = NoView
    /\ runs = [run \in {1, 2} |-> [pc |-> "rooms_lock"]]
    /\ vault = None

\* Server::room on the empty map of a server just started
SeedRoom(run) ==
    /\ runs[run].pc = "rooms_lock"
    /\ \E name \in ValidRooms, rnd \in 1 .. NSeeds, now \in Clock :
          runs' = [runs EXCEPT ![run] =
                      [pc |-> "greet_lock", name |-> name, rnd |-> rnd,
                       rooms |-> (name :> RoomNew(name, rnd, now))]]

\* the block of greet holding room.lock(): welcome, then Room::join, for the
\* first connection, whose Identify command followed its Room command
SeedGreet(run) ==
    /\ runs[run].pc = "greet_lock"
    /\ LET name == runs[run].name
           you == [id |-> SessionIdOf(1), nick |-> "a", identity |-> IdentityOf("i")]
           welcomed == welcome(2, you, runs[run].rooms[name], 1, [c \in Conns |-> << >>])
           joined == RoomJoin(runs[run].rooms[name], [session |-> you, send |-> 1], welcomed)
       IN runs' = [runs EXCEPT ![run] =
                      [pc |-> "run", name |-> name, rnd |-> runs[run].rnd,
                       rooms |-> (name :> joined.room), sink |-> joined.sink[1]]]

SeedNext ==
    \E run \in DOMAIN runs :
        \/ SeedRoom(run) /\ UNCHANGED <<ServerVars, view, vault>>
        \/ SeedGreet(run) /\ UNCHANGED <<ServerVars, view, vault>>

SeedSpec == SeedInit /\ [][SeedNext]_vars

\* ---------------------------------------------------------------- the vault
\* vault: file is the database as committed (its user_version and the tables
\* and views of its schema); tx is the database as the open transaction sees
\* it; pc, user_version and i are the position and the locals of migrate.
\* calls counts the calls of migrate and ret lists what they returned; before
\* is the file when the last one was made, ran lists the migrations it
\* called and done those whose effects were committed, over all calls.
MaxCalls == 5       \* calls of migrate on the same database

\* the tables and the view that the batch of m1 creates, one statement each
m1 == <<"euph_msgs", "euph_spans", "euph_trees">>

MIGRATIONS == <<m1>>

\* A new database file: SQLite gives it user_version 0 and an empty schema.
VaultInit ==
    /\ rooms = << >>
    /\ pc = [c \in Conns |-> "listen"]
    /\ roomName = [c \in Conns |-> None]
    /\ session = [c \in Conns |-> NoSession]
    /\ pend = [c \in Conns |-> NoCmd]
    /\ sink = [c \in Conns |-> << >>]
    /\ nrecv = [c \in Conns |-> 0]
    /\ result = [c \in Conns |-> None]
    /\ left = [conns |-> 0, rooms |-> 0, seeds |-> 0, cmds |-> 0, invalid |-> 0]
    /\ hist = [n \in ValidRooms |-> << >>]
    /\ mutex = [m \in Mutexes |-> 0]
    /\ view = NoView
    /\ runs = None
    /\ vault = [file |-> [user_version |-> 0, schema |-> {}], tx |-> None,
                pc |-> "idle", user_version |-> 0, i |-> 0, j |-> 0,
                calls |-> 0, ret |-> << >>, before |-> None,
                ran |-> << >>, done |-> << >>]

\* let mut tx = conn.transaction()?, where BEGIN succeeds or returns an error
MigrateBegin ==
    /\ vault.pc = "idle"
    /\ vault.calls < MaxCalls
    /\ \E begun \in BOOLEAN :
          vault' = [vault EXCEPT !.pc = IF begun THEN "query" ELSE "idle",
                                !.tx = IF begun THEN vault.file ELSE None,
                                !.user_version = 0, !.i = 0, !.j = 0,
                                !.calls = @ + 1,
                                !.ret = IF begun THEN @ ELSE Append(@, "Err"),
                                !.before = vault.file, !.ran = << >>]

\* migrate that starts its loop at the first migration whatever the
\* user_version stored
MigrateQueryFromZero ==
    /\ vault.pc = "query"
    /\ vault' = [vault EXCEPT !.pc = "loop", !.user_version = 0, !.i = 0]

\* the SELECT on pragma_user_version, and the iterator of the loop:
\* MIGRATIONS.iter().enumerate().skip(user_version)
MigrateQuery ==
    /\ vault.pc = "query"
    /\ vault' = [vault EXCEPT !.pc = "loop", !.user_version = vault.tx.user_version,
                              !.i = vault.tx.user_version]

\* migration(tx)? where each statement of the batch is committed as it runs
MigrateStatementAutocommit ==
    /\ vault.pc = "loop"
    /\ vault.i < Len(MIGRATIONS)
    /\ LET object == MIGRATIONS[vault.i + 1][vault.j + 1]
           ran == IF vault.j = 0 THEN Append(vault.ran, vault.i) ELSE vault.ran
       IN IF object \in vault.tx.schema
          THEN vault' = [vault EXCEPT !.pc = "idle", !.tx = None, !.ret = Append(@, "Err"),
                                     !.ran = ran]
          ELSE vault' = [vault EXCEPT
                            !.tx.schema = @ \cup {object},
                            !.file.schema = @ \cup {object},
                            !.ran = ran,
                            !.i = IF vault.j + 1 = Len(MIGRATIONS[vault.i + 1])
                                  THEN @ + 1 ELSE @,
                            !.j = IF vault.j + 1 = Len(MIGRATIONS[vault.i + 1])
                                  THEN 0 ELSE @ + 1]

\* migration(&mut tx)? in the loop, one statement of its batch at a time:
\* CREATE fails when the table or view exists, the batch stops there, `?`
\* returns the error and the transaction is dropped, which rolls it back
MigrateStatement ==
    /\ vault.pc = "loop"
    /\ vault.i < Len(MIGRATIONS)
    /\ LET object == MIGRATIONS[vault.i + 1][vault.j + 1]
           ran == IF vault.j = 0 THEN Append(vault.ran, vault.i) ELSE vault.ran
       IN IF object \in vault.tx.schema
          THEN vault' = [vault EXCEPT !.pc = "idle", !.tx = None, !.ret = Append(@, "Err"),
                                     !.ran = ran]
          ELSE vault' = [vault EXCEPT
                            !.tx.schema = @ \cup {object},
                            !.ran = ran,
                            !.i = IF vault.j + 1 = Len(MIGRATIONS[vault.i + 1])
                                  THEN @ + 1 ELSE @,
                            !.j = IF vault.j + 1 = Len(MIGRATIONS[vault.i + 1])
                                  THEN 0 ELSE @ + 1]

\* the loop is over: tx.pragma_update(None, "user_version", total)?
MigratePragma ==
    /\ vault.pc = "loop"
    /\ vault.i >= Len(MIGRATIONS)
    /\ vault' = [vault EXCEPT !.pc = "commit", !.tx.user_version = Len(MIGRATIONS)]

\* tx.commit() returns Ok
MigrateCommit ==
    /\ vault.pc = "commit"
    /\ vault' = [vault EXCEPT !.pc = "idle", !.file = vault.tx, !.tx = None,
                              !.ret = Append(@, "Ok"), !.done = @ \o vault.ran]

\* a statement, the query, the pragma or the commit returns an error of the
\* database: migrate returns it and the transaction is dropped, which rolls
\* it back
MigrateFail ==
    /\ vault.pc # "idle"
    /\ vault' = [vault EXCEPT !.pc = "idle", !.tx = None, !.ret = Append(@, "Err")]

VaultNext ==
    \/ MigrateBegin /\ UNCHANGED <<ServerVars, view, runs>>
    \/ MigrateQuery /\ UNCHANGED <<ServerVars, view, runs>>
    \/ MigrateStatement /\ UNCHANGED <<ServerVars, view, runs>>
    \/ MigratePragma /\ UNCHANGED <<ServerVars, view, runs>>
    \/ MigrateCommit /\ UNCHANGED <<ServerVars, view, runs>>
    \/ MigrateFail /\ UNCHANGED <<ServerVars, view, runs>>

VaultSpec == VaultInit /\ [][VaultNext]_vars

\* ============================================ claims on the layout engine
\* a pass has returned: view.blocks are the blocks it returned, view.state
\* the state it left, view.entry the state it was called on
Laid == view.pass = "relayout"

Height(tb) == tb.bottom_line - tb.top_line + 1

RECURSIVE TreesHeight(_, _)
TreesHeight(v, roots) ==
    IF roots = {} THEN 0
    ELSE Height(layout_tree(v, MinOf(roots))) + TreesHeight(v, roots \ {MinOf(roots)})

\* the rows of everything there is to lay out: every tree and the bottom
ContentHeight(v) == TreesHeight(v, TreeIds(v.store)) + Height(layout_bottom(v))

\* C15 as stated: after relayout, whatever the store, the cursor, the scroll
\* value and the correction, the first block's top_line is <= 0 and the last
\* block's bottom line is >= H-1.
C15_BlocksCoverScreen ==
    Laid => /\ view.blocks.top_line <= 0
            /\ view.blocks.bottom_line >= view.state.height - 1

\* C15, amended: after relayout the last block's bottom line is >= H-1, and
\* the first block's top_line is <= 0 whenever the trees and the bottom
\* together are at least H rows tall.
C15_BlocksCoverScreenGivenContent ==
    Laid => /\ view.blocks.bottom_line >= view.state.height - 1
            /\ ContentHeight(view.state) >= view.state.height
                   => view.blocks.top_line <= 0

\* a pass that scrolled past the top of a store taller than the screen: the
\* first block is clamped to line 0
C15_Witness ==
    /\ Laid
    /\ view.entry.scroll > 0
    /\ ContentHeight(view.state) >= view.state.height
    /\ view.blocks.top_line = 0
    /\ view.blocks.bottom_line >= view.state.height - 1

\* the state a pass was called on, once the path to its cursor is unfolded,
\* and the screen laid out around its last cursor (lines 502-511)
EntryUnfolded == make_path_visible(view.entry, cursor_path(view.entry, view.entry.cursor))

InitialScreen ==
    fill_screen_and_clamp_scrolling(
        EntryUnfolded,
        offset(layout_initial_seed(EntryUnfolded,
                                   cursor_path(view.entry, view.entry.last_cursor),
                                   cursor_path(view.entry, view.entry.cursor)),
               view.entry.scroll))

\* C16: no pass ends in the panic of an expect("no cursor found"): the block
\* of the cursor is in the blocks the correction works on and in the blocks
\* returned, for every cursor, last cursor, scroll value and correction.
C16_CursorBlockPresent ==
    /\ view.pass # "panic"
    /\ Laid => /\ find(view.placed, from_cursor(view.entry.cursor)) # 0
               /\ find(view.blocks, from_cursor(view.state.cursor)) # 0

\* a pass whose editor cursor was not on the screen laid out around the last
\* cursor, so that the screen was laid out again around the cursor
C16_Witness ==
    /\ Laid
    /\ view.entry.cursor.kind = "Editor"
    /\ view.entry.correction = "MakeCursorVisible"
    /\ ~ contains_cursor(EntryUnfolded, InitialScreen)
    /\ find(view.blocks, BlockCursor) # 0

\* the block of the cursor in the blocks returned, and the rows of the
\* screen its focus takes
CursorBlock == view.blocks.blocks[find(view.blocks, from_cursor(view.state.cursor))]
FocusFirst == CursorBlock.top_line + CursorBlock.focus.start
FocusLast == CursorBlock.top_line + CursorBlock.focus.end - 1

\* the rows between the scrolloff margins, [scrolloff, H-1-scrolloff]
RangeFirst == scrolloff(view.state.height)
RangeLast == view.state.height - 1 - scrolloff(view.state.height)

FocusInRange ==
    /\ FocusFirst <= RangeLast
    /\ FocusLast >= RangeFirst
    /\ CursorBlock.height > RangeLast - RangeFirst + 1 => CursorBlock.top_line = RangeFirst

\* the blocks returned start at the first row or end at the last row of the
\* screen, where fill_screen_and_clamp_scrolling puts them when it clamps
Clamped ==
    \/ view.blocks.top_line = 0
    \/ view.blocks.bottom_line = view.state.height - 1

MadeVisible ==
    /\ Laid
    /\ view.entry.correction = "MakeCursorVisible"
    /\ view.state.cursor.kind # "Bottom"

Centered ==
    /\ Laid
    /\ view.entry.correction = "CenterCursor"
    /\ view.state.cursor.kind # "Bottom"

\* (H - block.height)/2, clamped by the scrolloff bounds as .min(max).max(min)
CentreLine ==
    Max(Min(Div(view.state.height - CursorBlock.height, 2),
            view.state.height - CursorBlock.focus.end - scrolloff(view.state.height)),
        -CursorBlock.focus.start + scrolloff(view.state.height))

\* scenario S6: T1 = {m1}, T2 = {m2 -> m2a}, H = 10, the cursor on m2a,
\* nothing folded, CenterCursor
S6 ==
    /\ Centered
    /\ view.state.store = [parent |-> <<0, 0, 2>>, lines |-> <<1, 1, 1>>]
    /\ view.state.height = 10
    /\ view.state.cursor = CursorMsg(3)
    /\ view.state.folded = {}

\* C18 as stated: with CenterCursor and a cursor other than Bottom, after
\* relayout the top_line of the cursor block is (H - height)/2 clamped by the
\* scrolloff bounds; in scenario S6 the blocks cover lines 0..9 and the block
\* of m2a has top_line (10 - height)/2.
C18_CenterCursor ==
    /\ Centered => CursorBlock.top_line = CentreLine
    /\ S6 => /\ view.blocks.top_line <= 0
             /\ view.blocks.bottom_line >= 9
             /\ CursorBlock.top_line = Div(10 - CursorBlock.height, 2)

\* C18, amended: with CenterCursor and a cursor other than Bottom, after
\* relayout the top_line of the cursor block is (H - height)/2 clamped by the
\* scrolloff bounds, unless the blocks returned start at line 0 or end at
\* line H-1; in scenario S6 the blocks end at line 9 and so does the block of
\* m2a, the last of the store.
C18_CenterCursorUnlessClamped ==
    /\ Centered => Clamped \/ CursorBlock.top_line = CentreLine
    /\ S6 => /\ view.blocks.bottom_line = 9
             /\ CursorBlock.top_line + CursorBlock.height - 1 = 9

\* a pass that moved the block of a message cursor to the centre of a screen
\* with content beyond both of its ends
C18_Witness ==
    /\ Centered
    /\ view.state.cursor.kind = "Msg"
    /\ ~ Clamped
    /\ CursorBlock.top_line = CentreLine
    /\ view.placed.blocks[find(view.placed, from_cursor(view.state.cursor))].top_line
           # CursorBlock.top_line

\* the blocks of messages with a row in [0, H-1], in the order of the list
OnScreenMsgBlocks ==
    SelectSeq(view.blocks.blocks,
              LAMBDA b : /\ b.id.kind = "Msg"
                         /\ b.top_line <= view.state.height - 1
                         /\ b.top_line + b.height - 1 >= 0)

\* C19: after a pass, last_visible_msgs is the ids of the Msg blocks returned
\* that have a row in [0, H-1], in the order of the blocks, and nothing else;
\* on the path that moved the cursor and laid the screen out again too.
C19_LastVisibleMsgs ==
    Laid => view.state.last_visible_msgs
                = [k \in 1 .. Len(OnScreenMsgBlocks) |-> OnScreenMsgBlocks[k].id.id]

\* a pass that moved the cursor and laid the screen out again, with a message
\* above the screen, a message partly on it and the ghost of the last cursor
\* on it
C19_Witness ==
    /\ Laid
    /\ view.moved
    /\ Len(view.state.last_visible_msgs) >= 2
    /\ \E k \in 1 .. Len(view.blocks.blocks) :
          LET b == view.blocks.blocks[k] IN
          b.id.kind = "Msg" /\ b.top_line + b.height - 1 < 0
    /\ \E k \in 1 .. Len(view.blocks.blocks) :
          LET b == view.blocks.blocks[k] IN
          b.id.kind = "Msg" /\ b.top_line < 0 /\ b.top_line + b.height - 1 >= 0
    /\ \E k \in 1 .. Len(view.blocks.blocks) :
          LET b == view.blocks.blocks[k] IN
          b.id.kind = "LastCursor" /\ b.top_line \in 0 .. view.state.height - 1

\* the messages with a block in the blocks returned, and where the block is
Shown == {view.blocks.blocks[k].id.id :
             k \in {j \in 1 .. Len(view.blocks.blocks) : view.blocks.blocks[j].id.kind = "Msg"}}
Pos(id) == find(view.blocks, BlockMsg(id))

\* the descendants of a folded message have no block
DescendantsHidden ==
    \A id \in view.state.folded :
        \A d \in Descendants(view.state.store, id) : d \notin Shown

\* the children of an unfolded message follow it, in the order of their ids
ChildrenShown ==
    \A id \in Shown \ view.state.folded :
        \A c \in Children(view.state.store, id) :
            /\ c \in Shown
            /\ Pos(id) < Pos(c)
            /\ \A e \in Children(view.state.store, id) : c < e => Pos(c) < Pos(e)

\* the tree of this root is one of those laid out, from top_root to bottom_root
TreeLaidOut(root) ==
    /\ view.blocks.top_root # 0
    /\ view.blocks.top_root <= root
    /\ view.blocks.bottom_root = 0 \/ root <= view.blocks.bottom_root

\* C20 as stated: after relayout no descendant of a folded message has a Msg
\* block, every folded message has one, and the children of an unfolded
\* message follow it in child order.
C20_Folding ==
    Laid => /\ DescendantsHidden
            /\ \A id \in view.state.folded : id \in Shown
            /\ ChildrenShown

\* C20, amended: after relayout no descendant of a folded message has a Msg
\* block; a folded message has one when none of its ancestors is folded and
\* its tree is one of those laid out; the children of an unfolded message
\* follow it in child order.
C20_FoldingOfLaidOutTrees ==
    Laid => /\ DescendantsHidden
            /\ \A id \in view.state.folded :
                   /\ parent_segments(path(view.state.store, id)) \cap view.state.folded = {}
                   /\ TreeLaidOut(path(view.state.store, id)[1])
                   => id \in Shown
            /\ ChildrenShown

\* a folded message with a child is shown without it, below its unfolded
\* parent and before the parent's next child
C20_Witness ==
    /\ Laid
    /\ \E id \in view.state.folded \cap Shown :
          /\ Children(view.state.store, id) # {}
          /\ view.state.store.parent[id] \in Shown
          /\ \E e \in Children(view.state.store, view.state.store.parent[id]) :
                id < e /\ Pos(e) = Pos(id) + 1

\* the block of the cursor a pass was called with, in the blocks laid out
\* before the correction
PlacedCursorBlock ==
    view.placed.blocks[find(view.placed, from_cursor(view.entry.cursor))]

\* the block has a row in [scrolloff, H-1-scrolloff]
InRange(b) == b.top_line <= RangeLast /\ b.top_line + b.height - 1 >= RangeFirst

\* the positions, before the correction, of the Msg blocks with a row in the range
PlacedInRange ==
    {k \in 1 .. Len(view.placed.blocks) :
        view.placed.blocks[k].id.kind = "Msg" /\ InRange(view.placed.blocks[k])}

\* MoveCursorToVisibleArea finds the cursor out of the range, and a message in it
OutOfSight ==
    /\ Laid
    /\ view.entry.correction = "MoveCursorToVisibleArea"
    /\ PlacedInRange # {}
    /\ \/ view.entry.cursor.kind = "Bottom"
       \/ view.entry.cursor.kind = "Msg" /\ ~ InRange(PlacedCursorBlock)

\* the first message in the range, walking forward from a cursor above the
\* range, in reverse from a cursor below it or at the bottom
Target ==
    IF view.entry.cursor.kind = "Msg" /\ PlacedCursorBlock.top_line < RangeFirst
    THEN view.placed.blocks[MinOf(PlacedInRange)].id.id
    ELSE view.placed.blocks[MaxOf(PlacedInRange)].id.id

\* scenario S7: the store of S6 (T1 = {m1}, T2 = {m2 -> m2a}), the cursor on
\* m1, which lies above line 0, and m2 in the range
S7 ==
    /\ OutOfSight
    /\ view.entry.store.parent = <<0, 0, 2>>
    /\ view.entry.cursor = CursorMsg(1)
    /\ PlacedCursorBlock.top_line + PlacedCursorBlock.height - 1 < 0
    /\ 2 \in {view.placed.blocks[k].id.id : k \in PlacedInRange}

\* C21: with MoveCursorToVisibleArea and a cursor on a message whose block
\* has no row in [scrolloff, H-1-scrolloff] (or a cursor at the bottom), the
\* cursor becomes the first message in the range, walking forward from a
\* cursor above the range and in reverse otherwise; the screen is laid out
\* again, last_cursor is the new cursor and last_cursor_line the top_line of
\* its block in the blocks returned.  In scenario S7 the cursor moves from
\* m1 to m2.
C21_MoveCursorToVisibleArea ==
    /\ OutOfSight =>
          /\ view.state.cursor = CursorMsg(Target)
          /\ view.moved
          /\ view.state.last_cursor = CursorMsg(Target)
          /\ Pos(Target) # 0
          /\ view.state.last_cursor_line = view.blocks.blocks[Pos(Target)].top_line
    /\ S7 => view.state.cursor = CursorMsg(2)

\* scenario S7 happened: the cursor was on m1 above the screen and is on m2,
\* with a second message in the range below m2
C21_Witness ==
    /\ S7
    /\ view.moved
    /\ view.state.cursor = CursorMsg(2)
    /\ Cardinality(PlacedInRange) >= 2

\* C25: after every pass, whatever the correction and whether or not the
\* cursor was moved, last_cursor is the cursor, last_cursor_line is the
\* top_line of the cursor's block in the blocks returned (0 for a cursor at
\* the bottom), scroll is 0 and correction is None.
C25_Commit ==
    Laid => /\ view.state.last_cursor = view.state.cursor
            /\ view.state.last_cursor_line
                   = (IF view.state.cursor.kind = "Bottom" THEN 0 ELSE CursorBlock.top_line)
            /\ view.state.scroll = 0
            /\ view.state.correction = "None"

\* a pass called with a scroll pending and a correction that moved the block
\* of a message cursor: the line stored is the one after the correction
C25_Witness ==
    /\ Laid
    /\ view.entry.scroll # 0
    /\ view.entry.correction = "MakeCursorVisible"
    /\ view.state.cursor.kind = "Msg"
    /\ view.state.last_cursor_line = CursorBlock.top_line
    /\ view.state.last_cursor_line # PlacedCursorBlock.top_line
    /\ view.state.last_cursor_line # view.entry.last_cursor_line

\* the messages above a message in its tree
ProperAncestors(store, id) == {a \in Msgs(store) : id \in Descendants(store, a)}

\* the ancestor segments of the path of the cursor a pass was called with:
\* the proper ancestors of the message of a Msg cursor; the parent of an
\* editor or pseudo message and the ancestors of that parent
CursorAncestors ==
    CASE view.entry.cursor.kind = "Msg" ->
             ProperAncestors(view.entry.store, view.entry.cursor.id)
      [] view.entry.cursor.kind \in {"Editor", "Pseudo"} /\ view.entry.cursor.id # 0 ->
             {view.entry.cursor.id} \cup ProperAncestors(view.entry.store, view.entry.cursor.id)
      [] OTHER -> {}

\* C26: a pass removes from the fold set the ancestor segments of the cursor
\* path and nothing else: the entries off the path, and the entry of the
\* cursor message itself, stay as they were.
C26_MakePathVisible == Laid => view.state.folded = view.entry.folded \ CursorAncestors

\* a pass called with an editor below a folded message: the message is
\* unfolded
C26_Witness ==
    /\ Laid
    /\ view.entry.cursor.kind = "Editor"
    /\ view.entry.cursor.id \in view.entry.folded
    /\ view.entry.cursor.id \notin view.state.folded
    /\ find(view.blocks, BlockCursor) # 0

\* MoveCursorToVisibleArea has nothing to move: the cursor is an editor or a
\* pseudo message, or a message with a row in the range, or no message has a
\* row in the range
NothingToMove ==
    /\ Laid
    /\ view.entry.correction = "MoveCursorToVisibleArea"
    /\ \/ view.entry.cursor.kind \in {"Editor", "Pseudo"}
       \/ view.entry.cursor.kind = "Msg" /\ InRange(PlacedCursorBlock)
       \/ PlacedInRange = {}

\* C27: with MoveCursorToVisibleArea the cursor is left as it was when it is
\* an editor or a pseudo message, when it is a message whose block has a row
\* in [scrolloff, H-1-scrolloff], and when no message has a row in that
\* range; the screen is then not laid out again and the blocks returned are
\* those laid out before the correction.
C27_CursorUnchanged ==
    NothingToMove => /\ view.state.cursor = view.entry.cursor
                     /\ ~ view.moved
                     /\ view.blocks = view.placed

\* a pass with a scroll pending that left a message cursor alone: its block
\* starts above the range and ends in it, and other messages are in the range
C27_Witness ==
    /\ NothingToMove
    /\ view.entry.scroll # 0
    /\ view.entry.cursor.kind = "Msg"
    /\ PlacedCursorBlock.top_line < RangeFirst
    /\ Cardinality(PlacedInRange) >= 2
    /\ view.state.cursor = view.entry.cursor
    /\ view.blocks = view.placed

\* the trees before the top root of the blocks returned (every tree, when
\* only the bottom is laid out)
TreesAbove ==
    {r \in TreeIds(view.state.store) :
        view.blocks.top_root = 0 \/ r < view.blocks.top_root}

\* C29: whatever scroll delta is pending and whatever the correction, after a
\* pass the last block's bottom line is >= H-1, and the first block's
\* top_line is > 0 only when no tree precedes the top root and the bottom
\* line is H-1: no empty line appears below the content.
C29_ScrollBounded ==
    Laid => /\ view.blocks.bottom_line >= view.state.height - 1
            /\ view.blocks.top_line > 0
                   => /\ TreesAbove = {}
                      /\ view.blocks.bottom_line = view.state.height - 1

\* a pass that scrolled past the end of a store taller than the screen: the
\* block of the cursor is lower than the scroll alone would have put it, and
\* the blocks end at line H-1
C29_Witness ==
    /\ Laid
    /\ view.entry.correction = "None"
    /\ view.entry.scroll = -MaxScroll
    /\ view.entry.cursor.kind = "Msg"
    /\ view.entry.cursor = view.entry.last_cursor
    /\ CursorBlock.top_line > view.entry.last_cursor_line + view.entry.scroll
    /\ view.blocks.bottom_line = view.state.height - 1
    /\ view.blocks.top_line < 0

\* the ids and top_lines of the blocks with a row on the screen, in the
\* order of the list (the ghost of the last cursor has no row)
ScreenLines(tb) ==
    LET on == SelectSeq(tb.blocks,
                        LAMBDA b : /\ b.id.kind # "LastCursor"
                                   /\ b.top_line <= view.state.height - 1
                                   /\ b.top_line + b.height - 1 >= 0)
    IN [k \in 1 .. Len(on) |-> <<on[k].id, on[k].top_line>>]

\* a pass run again on the state the last pass left: the store, the frame
\* height, the cursor and the fold set are unchanged, scroll is 0 and
\* correction is None
RunAgain == view.pass = "relayout" /\ view'.entry = view.state

\* C30: a second pass with nothing changed puts the same blocks on the same
\* lines of the screen as the first and leaves last_cursor_line and
\* last_visible_msgs unchanged.
C30_RedrawStable ==
    [][RunAgain => /\ ScreenLines(view'.blocks) = ScreenLines(view.blocks)
                   /\ view'.state.last_cursor_line = view.state.last_cursor_line
                   /\ view'.state.last_visible_msgs = view.state.last_visible_msgs]_vars

\* C30, amended: a second pass with nothing changed puts the same blocks on
\* the same lines of the screen as the first and leaves last_cursor_line and
\* last_visible_msgs unchanged, unless the first pass had a scroll pending
\* and left the cursor at the bottom.
C30_RedrawStableUnlessBottomScrolled ==
    [][RunAgain /\ (view.state.cursor.kind = "Bottom" => view.entry.scroll = 0)
           => /\ ScreenLines(view'.blocks) = ScreenLines(view.blocks)
              /\ view'.state.last_cursor_line = view.state.last_cursor_line
              /\ view'.state.last_visible_msgs = view.state.last_visible_msgs]_vars

\* a second pass on the state the first left, with a message cursor below
\* line 0 on a screen with content beyond both of its ends: it left the state
\* as it found it
C30_Witness ==
    /\ Laid
    /\ view.n >= 2
    /\ view.entry = view.state
    /\ view.state.cursor.kind = "Msg"
    /\ view.state.last_cursor_line > 0
    /\ Len(view.state.last_visible_msgs) >= 2
    /\ ~ Clamped

\* ------------------------------------------------ the connection pipeline
\* Init, RoomNegotiated, Identified, Running, Terminated
Stage(p) ==
    CASE p \in {"listen", "negotiate_room"} -> 0
      [] p = "negotiate_identity" -> 1
      [] p \in {"rooms_lock", "greet_lock"} -> 2
      [] p = "terminated" -> 4
      [] OTHER -> 3

\* the packets a step puts on the sink of connection d
Sent(d) == SubSeq(sink'[d], Len(sink[d]) + 1, Len(sink'[d]))

\* connection c ends while it negotiates its room or its identity
EndsNegotiating(c) ==
    pc[c] \in {"negotiate_room", "negotiate_identity"} /\ pc'[c] = "terminated"

\* C24: a connection moves through Init, RoomNegotiated, Identified, Running
\* and Terminated in this order, one stage at a time or straight to
\* Terminated, where it stays; a connection that ends while it negotiates its
\* room or its identity leaves the rooms and every sink as they are; only a
\* connection that has been identified adds a room to the map, is inserted
\* into a room or causes a JoinNtf or a PartNtf.
C24_Pipeline ==
    [][\A c \in Conns :
          /\ Stage(pc'[c]) \in {Stage(pc[c]), Stage(pc[c]) + 1, 4}
          /\ Stage(pc[c]) = 4 => Stage(pc'[c]) = 4
          /\ EndsNegotiating(c) => rooms' = rooms /\ sink' = sink /\ hist' = hist
          /\ Stage(pc[c]) < 2 =>
                /\ pc'[c] # pc[c] => DOMAIN rooms' = DOMAIN rooms
                /\ \A r \in DOMAIN rooms' : c \notin Members(rooms'[r])
                /\ \A d \in Conns : \A k \in 1 .. Len(Sent(d)) :
                      Sent(d)[k].packet.kind \in {"JoinNtf", "PartNtf"}
                          => Sent(d)[k].by # c]_vars

\* a connection ended after its room was accepted and before it was
\* identified, while another connection is a member of a room
C24_Witness ==
    \E c \in Conns, d \in Conns, r \in DOMAIN rooms :
        /\ c # d
        /\ pc[c] = "terminated"
        /\ \E k \in 1 .. Len(sink[c]) : sink[c][k].packet.kind = "RoomRpl::Success"
        /\ \A k \in 1 .. Len(sink[c]) : sink[c][k].packet.kind # "IdentifyRpl::Success"
        /\ d \in Members(rooms[r])
        /\ pc[d] = "run"

\* --------------------------------------------------- the seed of a room
Greeted(run) == runs[run].pc = "run"

\* the last_message of the IdentifyRpl::Success the run sent
L0(run) ==
    LET k == CHOOSE k \in 1 .. Len(runs[run].sink) :
                 runs[run].sink[k].packet.kind = "IdentifyRpl::Success"
    IN runs[run].sink[k].packet.last_message

SameRoom(a, b) == Greeted(a) /\ Greeted(b) /\ runs[a].name = runs[b].name

\* C23: two fresh rooms created for the same room name in two runs have the
\* same initial last_message, the L0 of the first IdentifyRpl::Success of
\* the room.
C23_DeterministicSeed ==
    \A a \in DOMAIN runs, b \in DOMAIN runs : SameRoom(a, b) => L0(a) = L0(b)

\* C23, amended: the L0 of the first IdentifyRpl::Success of a fresh room is
\* the room's initial last_message, a seed made of the number Room::new drew
\* at random: two fresh rooms created for the same room name in two runs
\* have the same initial last_message exactly when the same number was drawn
\* in both.
C23_SeedIsTheDraw ==
    \A a \in DOMAIN runs, b \in DOMAIN runs :
        SameRoom(a, b) =>
            /\ L0(a) = runs[a].rooms[runs[a].name].last_message
            /\ L0(a) = L0(b) <=> runs[a].rnd = runs[b].rnd

\* both runs greeted their first connection in a fresh room of the same name,
\* and Room::new drew different numbers
C23_Witness ==
    /\ SameRoom(1, 2)
    /\ runs[1].rnd # runs[2].rnd
    /\ DOMAIN runs[1].rooms[runs[1].name].clients # {}

\* ----------------------------------------------------- the vault's schema
\* migrate has returned (the last entry of ret is what it returned)
Returned(r) ==
    vault.pc = "idle" /\ vault.calls > 0 /\ vault.ret[Len(vault.ret)] = r

\* the indices from user_version to the last migration, in increasing order
Pending(user_version) ==
    [k \in 1 .. Max(Len(MIGRATIONS) - user_version, 0) |-> user_version + k - 1]

IsPrefix(p, q) == Len(p) <= Len(q) /\ p = SubSeq(q, 1, Len(p))

\* the tables and views that the migrations listed create
Objects(indices) ==
    UNION {{MIGRATIONS[indices[k] + 1][n] : n \in 1 .. Len(MIGRATIONS[indices[k] + 1])} :
              k \in 1 .. Len(indices)}

\* C22: a call of migrate calls only migrations whose index is at least the
\* user_version stored, in increasing order of index; when it returns Ok it
\* has called all of them and user_version is the number of migrations; no
\* migration is committed twice over a sequence of calls; a call on a
\* database that is up to date calls none and leaves the file as it is.
C22_MigrateOnce ==
    vault.calls > 0 =>
        /\ IsPrefix(vault.ran, Pending(vault.before.user_version))
        /\ Returned("Ok") =>
              /\ vault.ran = Pending(vault.before.user_version)
              /\ vault.file.user_version = Len(MIGRATIONS)
        /\ \A k \in 1 .. Len(vault.done), n \in 1 .. Len(vault.done) :
              vault.done[k] = vault.done[n] => k = n
        /\ vault.before.user_version = Len(MIGRATIONS) =>
              /\ vault.ran = << >>
              /\ vault.pc = "idle" => vault.file = vault.before

\* the first call migrated the database and the second, on the same file,
\* returned Ok as well
C22_Witness ==
    /\ Returned("Ok")
    /\ Len(vault.ret) >= 2
    /\ vault.ret[1] = "Ok"
    /\ vault.ret[2] = "Ok"
    /\ vault.done = <<0>>
    /\ vault.before.schema = Objects(<<0>>)

\* C28: until migrate commits, the file is what it was when migrate was
\* called; when migrate returns an error the file's user_version and schema
\* are those of before the call, and when it returns Ok the file holds all
\* the objects of the migrations it called and the new user_version.
C28_Atomic ==
    vault.calls > 0 =>
        /\ vault.pc # "idle" => vault.file = vault.before
        /\ Returned("Err") => vault.file = vault.before
        /\ Returned("Ok") =>
              vault.file = [user_version |-> Len(MIGRATIONS),
                            schema |-> vault.before.schema \cup Objects(vault.ran)]

\* migrate returned an error after two statements of m1 had run in its
\* transaction on a new database
C28_Witness ==
    /\ Returned("Err")
    /\ vault.ran = <<0>>
    /\ vault.j = 2
    /\ vault.before = [user_version |-> 0, schema |-> {}]

\* ------------------------------------------- what a member learns from its sink
Carries(e) == e.packet.kind \in {"SendRpl::Success", "SendNtf"}

\* the messages connection c learns of, in the order of its sink
Learned(c) == SelectSeq(sink[c], Carries)

\* C31: for every member, the messages it learns of (SendRpl::Success for
\* its own sends, SendNtf for the others'), in the order in which the
\* packets are placed on its sink, are pred-linked: the pred of each is the
\* id of the one learned immediately before.
C31_ClientHashChain ==
    \A c \in Conns : \A k \in 2 .. Len(Learned(c)) :
        Learned(c)[k].packet.message.pred = MessageId(Learned(c)[k - 1].packet.message)

\* ---------------------------------------- the membership a client rebuilds
\* what a packet does to the set of sessions its receiver keeps
Apply(known, packet) ==
    CASE packet.kind = "IdentifyRpl::Success" -> packet.others
      [] packet.kind = "JoinNtf" -> known \cup {packet.who}
      [] packet.kind = "PartNtf" -> known \ {packet.who}
      [] packet.kind = "NickNtf" ->
            {IF x.id = packet.who.id THEN packet.who ELSE x : x \in known}
      [] OTHER -> known

RECURSIVE Rebuild(_, _)
Rebuild(s, k) == IF k = 0 THEN {} ELSE Apply(Rebuild(s, k - 1), s[k].packet)

\* the sessions connection c knows of after the packets on its sink
Reconstructed(c) == Rebuild(sink[c], Len(sink[c]))

\* C32: for every member X of a room, the sessions rebuilt from the others
\* of X's IdentifyRpl::Success and the JoinNtf, PartNtf and NickNtf sent to
\* X are the sessions of the room's client map without X, with the nick
\* each of them has in the map.
C32_ReconstructedMembership ==
    \A r \in DOMAIN rooms : \A id \in DOMAIN rooms[r].clients :
        Reconstructed(rooms[r].clients[id].send)
            = {rooms[r].clients[i].session : i \in DOMAIN rooms[r].clients \ {id}}

\* a member was sent a JoinNtf, a NickNtf and a PartNtf and is not alone in
\* its room
C32_Witness ==
    \E r \in DOMAIN rooms : \E id \in DOMAIN rooms[r].clients :
        LET X == rooms[r].clients[id].send IN
        /\ \A kind \in {"JoinNtf", "NickNtf", "PartNtf"} :
              \E k \in 1 .. Len(sink[X]) : sink[X][k].packet.kind = kind
        /\ DOMAIN rooms[r].clients # {id}
        /\ pc[X] = "run"

\* ------------------------------------------------ the session in its room
\* connection c is between the end of greet and the return of part
Present(c) == Stage(pc[c]) = 3

\* C33: from the end of greet until part has run, the id of a session is a
\* key of the client map of its room and maps to the client of its own
\* connection, with that session id; every key of a map is the session id
\* of its client, and two sessions present in one room have different ids.
C33_SessionPresence ==
    /\ \A c \in Conns :
          Present(c) =>
              /\ roomName[c] \in DOMAIN rooms
              /\ session[c].id \in DOMAIN rooms[roomName[c]].clients
              /\ rooms[roomName[c]].clients[session[c].id].session.id = session[c].id
              /\ rooms[roomName[c]].clients[session[c].id].send = c
    /\ \A r \in DOMAIN rooms : \A id \in DOMAIN rooms[r].clients :
          rooms[r].clients[id].session.id = id
    /\ \A c \in Conns, d \in Conns :
          Present(c) /\ Present(d) /\ c # d /\ roomName[c] = roomName[d]
              => session[c].id # session[d].id

\* a session is about to part while a second connection, which drew the
\* same session id for the same room, was ended by the panic of Room::join
C33_Witness ==
    \E c \in Conns, d \in Conns :
        /\ c # d
        /\ pc[c] = "part_lock"
        /\ pc[d] = "terminated"
        /\ \E k \in 1 .. Len(sink[d]) :
              /\ sink[d][k].packet.kind = "IdentifyRpl::Success"
              /\ sink[d][k].packet.you.id = session[c].id
              /\ session[c] \in sink[d][k].packet.others

====
